---- MODULE Spec2Model ----
(***************************************************************************)
(* A model of the reel pipeline of prathits012/ai-video-reel:              *)
(*   scout.parse_script, scout.scout, director.director,                   *)
(*   polish.add_text_overlay, polish.polish, iterate.iterate,              *)
(*   safety_rate.safety_check, run.run / run_hamilton,                     *)
(*   rate.extract_frames, polish.generate_tts_audio and the files of the   *)
(*   clips and output directories.                                         *)
(* Durations are integers (whole time units); None is the empty sequence   *)
(* and Some(x) is <<x>>.                                                   *)
(***************************************************************************)
EXTENDS Integers, Sequences, FiniteSets, TLC

VARIABLES
    pc,              \* position of the running call
    mode,            \* "iterate" | "run" | "hamilton" | "safety" | "director" | "overlay" | "parse" | "polish" | "rate" | "clips" | "caption" | "runs"
    trace,           \* completed stages, in order (history)
    \* ---- run.run / run.run_hamilton
    script_exists,   \* Path(topic_or_script).exists()
    iterate_rate,    \* run(iterate_rate=...)
    rate,            \* run(rate=...)
    \* ---- iterate.iterate
    draft_exists,    \* output/<stem>_draft.mp4 exists
    max_iterations,
    min_score,
    i,               \* loop index of `for i in range(max_iterations)`
    rating,          \* local `rating`: <<>> is None
    reports,         \* every report rate_video returned, in order (history)
    ret,             \* value returned by iterate: <<>> until it returns / None
    \* ---- safety_rate.safety_check
    text_empty,      \* the combined script text is blank (no moderation request)
    mod_results,     \* resp.results of the moderation requests, in order
    moderation,      \* dict returned by _run_text_moderation
    triggered,       \* category keys some moderation result triggered (history)
    result,          \* parsed evaluator response, then the returned dict; <<>> before
    \* ---- scout.parse_script
    script,          \* the script file: a sequence of lines, each a sequence of tokens
    segments,        \* list[Segment] returned by parse_script
    \* ---- director.director
    clip_durations,  \* native durations of get_clips_in_order(clips_dir), in order
    single_clip,
    target_duration, \* <<>> is None
    draft,           \* the written draft: <<>> before, else <<[slices, copies, duration]>>
    \* ---- polish.add_text_overlay
    ov_k,            \* index of the next segment of `for seg in segments`
    t,               \* caption cursor
    text_clips,      \* positioned line clips, in order of creation
    \* ---- polish.polish
    video_duration,  \* video.duration of the draft
    music,           \* music_path: <<>> is None, else <<[exists, duration]>>
    music_audio,     \* music_audio_path: <<>> is None, else <<[exists, duration]>>
    voiceover,
    audio_clips,     \* the layers of the final audio, in order
    final_audio,     \* <<>> is no audio set, else <<[duration]>>
    final,           \* output/<stem>_final.mp4: <<>> is absent, else <<version>>
    \* ---- errors and loads of director.director
    error,           \* the exception raised, when the model names it: <<>> otherwise
    clips_loaded,    \* number of clip files opened with VideoFileClip
    \* ---- the environment and the collaborators
    keys,            \* the credentials set in the environment
    replies,         \* the replies the quality evaluator may give
    calls,           \* every request made to a collaborator, in order (history)
    written,         \* every file the calls of iterate wrote, in order (history)
    \* ---- rate.extract_frames
    frames_per_segment,
    max_frames,
    frames,          \* the list extract_frames returned: <<>> before
    \* ---- the clips directory of a script, across runs of scout and director
    clip_files,      \* the files of clips/<stem>: [index, name, fetch]
    latest,          \* per segment: the fetch scout last paired it with (history), 0 is none
    fetches,         \* number of downloads so far
    assembled,       \* per segment: the file director cut its slice from, <<>> before
    \* ---- pipeline runs on scripts of different base names, and the output directory
    procs,           \* per run: [pc, voiceover, n, k, pending] of polish -> safety_check -> rate_video
    fs,              \* the paths that exist: [name, id]
    made,            \* per run: the scratch directories its calls created (history)
    access           \* every access of a run to a file: [run, path, kind] (history)

iterVars == <<draft_exists, max_iterations, min_score, i, rating, reports, ret>>
runVars  == <<script_exists, iterate_rate, rate>>
safetyVars == <<text_empty, mod_results, moderation, triggered, result>>
mediaVars == <<script, segments, clip_durations, single_clip, target_duration,
               draft, ov_k, t, text_clips>>
polishVars == <<video_duration, music, music_audio, voiceover, audio_clips,
                final_audio, final>>
polishArgs == <<video_duration, music, music_audio, voiceover, audio_clips,
                final_audio>>
frameVars == <<frames_per_segment, max_frames, frames>>
clipVars == <<clip_files, latest, fetches, assembled>>
fsVars   == <<procs, fs, made, access>>
auxVars  == <<frameVars, clipVars, fsVars>>
envVars  == <<keys, replies, auxVars>>
otherExt == <<error, clips_loaded, written, envVars, calls, written>>
extRest  == <<polishArgs, otherExt>>
extVars  == <<polishVars, otherExt>>
vars     == <<pc, mode, trace, runVars, iterVars, safetyVars, mediaVars, extVars>>

(***************************************************************************)
(* Bounds of the model.                                                    *)
(***************************************************************************)
MaxIterations == 3

\* values the evaluator's overall_score and the caller's min_score range over
ScoreValues == {7, 8, 9}
DefaultMinScore == 8
MinScoreValues == {DefaultMinScore, DefaultMinScore + 1}
IssueLists == {<<>>, <<"issue">>}

\* the fixed-shape rating report of rate_video
Reports == [overall_score : ScoreValues, pass : BOOLEAN, issues : IssueLists]

(***************************************************************************)
(* Helpers.                                                                *)
(***************************************************************************)
RECURSIVE Count(_, _)
Count(s, x) ==
    IF s = <<>> THEN 0
    ELSE (IF Head(s) = x THEN 1 ELSE 0) + Count(Tail(s), x)

\* positions of x in s
Positions(s, x) == {k \in 1..Len(s) : s[k] = x}

\* the state of the calls a specification does not exercise
IdleIterate ==
    /\ draft_exists = FALSE
    /\ max_iterations = 0
    /\ min_score = DefaultMinScore
    /\ i = 0
    /\ rating = <<>>
    /\ reports = <<>>
    /\ ret = <<>>

IdleRun ==
    /\ script_exists = TRUE
    /\ iterate_rate = FALSE
    /\ rate = FALSE

IdleSafety ==
    /\ text_empty = FALSE
    /\ mod_results = <<>>
    /\ moderation = [flagged |-> FALSE, hard_flags |-> <<>>]
    /\ triggered = {}
    /\ result = <<>>

IdlePolish ==
    /\ video_duration = 0
    /\ music = <<>>
    /\ music_audio = <<>>
    /\ voiceover = FALSE
    /\ audio_clips = <<>>
    /\ final_audio = <<>>
    /\ final = <<>>

\* the credentials the stages read from the environment
AllKeys == {"PEXELS_API_KEY", "OPENAI_API_KEY", "ELEVENLABS_API_KEY"}

IdleFrames ==
    /\ frames_per_segment = 0
    /\ max_frames = 0
    /\ frames = <<>>

IdleClips ==
    /\ clip_files = {}
    /\ latest = <<>>
    /\ fetches = 0
    /\ assembled = <<>>

IdleFs ==
    /\ procs = <<>>
    /\ fs = {}
    /\ made = <<>>
    /\ access = {}

IdleAux == IdleFrames /\ IdleClips /\ IdleFs

IdleOther ==
    /\ IdleAux
    /\ error = <<>>
    /\ clips_loaded = 0
    /\ written = <<>>
    /\ keys = AllKeys
    /\ replies = Reports
    /\ calls = <<>>

IdleExt == IdlePolish /\ IdleOther

\* polish.py lines 252-254: write_videofile creates the final artifact or replaces it
Written_Once(file) == <<1>>

Written(file) == <<IF file = <<>> THEN 1 ELSE file[1] + 1>>

Version(file) == IF file = <<>> THEN 0 ELSE file[1]

(***************************************************************************)
(* Requests to the collaborators.  A request is recorded with the segment  *)
(* it serves (0: the whole script or video), the polish pass it belongs to *)
(* (0: before any) and its outcome: "ok", "error" (the request failed),    *)
(* "empty" (a search without results) or "nofile" (no downloadable file).  *)
(***************************************************************************)
MaxRunSegments == 2

\* scout.py line 43: the duration of a segment without a DURATION field
DefaultRunDuration == 5

Call(api, seg, pass_, outcome) ==
    [api |-> api, seg |-> seg, pass |-> pass_, outcome |-> outcome]

\* what a stage did: the requests it made, whether it returned, the error it raised
Outcome(calls_, ok, error_) == [calls |-> calls_, ok |-> ok, error |-> error_]

\* scout.py line 146, script_writer.py line 65, rate.py line 91, safety_rate.py
\* line 103, polish.py line 143, elevenlabs_client.py lines 90-92
KeyMissing(type, key) ==
    [type |-> type, text |-> "not set in .env", found |-> 0, need |-> 1, remedy |-> key]

\* run.py line 64: ValueError("Flow script has no segments.")
NoSegmentsError ==
    [type |-> "ValueError", text |-> "Flow script has no segments", found |-> 0, need |-> 1,
     remedy |-> ""]

\* scout.py lines 175-189: search and download for the segments 1..j
RECURSIVE FetchedPrefix(_)
FetchedPrefix(j) ==
    IF j = 0 THEN <<>>
    ELSE FetchedPrefix(j - 1)
           \o <<Call("search", j, 0, "ok"), Call("download", j, 0, "ok")>>

\* scout.py lines 176-188: the ways the round of segment k ends in an error
FetchFailures(k) ==
    { <<Call("search", k, 0, "error")>>,
      <<Call("search", k, 0, "empty")>>,
      <<Call("search", k, 0, "nofile")>>,
      <<Call("search", k, 0, "ok"), Call("download", k, 0, "error")>> }

\* scout.py lines 175-191
PerSegmentFetch(n) ==
    {Outcome(FetchedPrefix(n), TRUE, <<>>)}
      \cup UNION { {Outcome(FetchedPrefix(j) \o f, FALSE, <<>>) : f \in FetchFailures(j + 1)} :
                   j \in 0..(n - 1) }

\* scout.py lines 96-97 and 159-168: how a search can end
SearchOutcomes == {"ok", "empty", "nofile", "error"}

\* scout.py lines 160-162: a search without results is followed by a second
\* search without the minimum duration
NeedsFallback_OnError(outcome) == outcome \in {"empty", "error"}

NeedsFallback(outcome) == outcome = "empty"

\* scout.py lines 158-168: the searches for the single clip
SingleClipSearches ==
    UNION { IF NeedsFallback(o1)
              THEN {<<Call("search", 1, 0, o1), Call("search", 1, 0, o2)>> : o2 \in SearchOutcomes}
              ELSE {<<Call("search", 1, 0, o1)>>} :
            o1 \in SearchOutcomes }

\* scout.py lines 154-173: one clip for the whole script, whatever the segments
SingleClipFetch ==
    UNION { IF c[Len(c)].outcome = "ok"
              THEN {Outcome(Append(c, Call("download", 1, 0, "ok")), TRUE, <<>>),
                    Outcome(Append(c, Call("download", 1, 0, "error")), FALSE, <<>>)}
              ELSE {Outcome(c, FALSE, <<>>)} :
            c \in SingleClipSearches }

\* scout.py lines 144-191
ScoutOutcomes(n, single, keys_) ==
    IF "PEXELS_API_KEY" \notin keys_
      THEN {Outcome(<<>>, FALSE, <<KeyMissing("ValueError", "PEXELS_API_KEY")>>)}
    ELSE IF single THEN SingleClipFetch
    ELSE PerSegmentFetch(n)

\* polish.py lines 151-162: one speech request per segment (text or query)
RECURSIVE SpokenPrefix(_, _)
SpokenPrefix(j, pass_) ==
    IF j = 0 THEN <<>>
    ELSE Append(SpokenPrefix(j - 1, pass_), Call("speech", j, pass_, "ok"))

\* polish.py lines 199-258 as a stage: the speech requests of a voiceover,
\* then the write, or an error
PolishOutcomes(voice, n, keys_, pass_) ==
    IF ~voice
      THEN {Outcome(<<>>, TRUE, <<>>), Outcome(<<>>, FALSE, <<>>)}
    ELSE IF "OPENAI_API_KEY" \notin keys_
      THEN {Outcome(<<>>, FALSE, <<KeyMissing("ValueError", "OPENAI_API_KEY")>>)}
    ELSE {Outcome(SpokenPrefix(n, pass_), TRUE, <<>>), Outcome(SpokenPrefix(n, pass_), FALSE, <<>>)}
           \cup {Outcome(Append(SpokenPrefix(j, pass_), Call("speech", j + 1, pass_, "error")),
                          FALSE, <<>>) : j \in 0..(n - 1)}

\* rate.py lines 89-91 and 194-207: one evaluator request
RateOutcomes(keys_, pass_) ==
    IF "OPENAI_API_KEY" \notin keys_
      THEN {Outcome(<<>>, FALSE, <<KeyMissing("ValueError", "OPENAI_API_KEY")>>)}
      ELSE {Outcome(<<Call("rate", 0, pass_, "ok")>>, TRUE, <<>>),
            Outcome(<<Call("rate", 0, pass_, "ok")>>, FALSE, <<>>),
            Outcome(<<Call("rate", 0, pass_, "error")>>, FALSE, <<>>)}

\* safety_rate.py lines 101-103, 113 and 233-249: moderation, then the evaluator
SafetyOutcomes(keys_, pass_) ==
    IF "OPENAI_API_KEY" \notin keys_
      THEN {Outcome(<<>>, FALSE, <<KeyMissing("ValueError", "OPENAI_API_KEY")>>)}
      ELSE {Outcome(<<Call("moderation", 0, pass_, "error")>>, FALSE, <<>>),
            Outcome(<<Call("moderation", 0, pass_, "ok"), Call("safety", 0, pass_, "error")>>,
                    FALSE, <<>>),
            Outcome(<<Call("moderation", 0, pass_, "ok"), Call("safety", 0, pass_, "ok")>>,
                    FALSE, <<>>),
            Outcome(<<Call("moderation", 0, pass_, "ok"), Call("safety", 0, pass_, "ok")>>,
                    TRUE, <<>>)}

IdleMedia ==
    /\ script = <<>>
    /\ segments = <<>>
    /\ clip_durations = <<>>
    /\ single_clip = FALSE
    /\ target_duration = <<>>
    /\ draft = <<>>
    /\ ov_k = 1
    /\ t = 0
    /\ text_clips = <<>>

(***************************************************************************)
(* iterate.iterate                                                          *)
(***************************************************************************)
\* line 57: rating["pass"] and not rating.get("issues") and rating["overall_score"] >= min_score
TargetMet_DropsIssues(r, min) ==
    r.pass /\ r.overall_score >= min

\* rating.get("issues"): None when the reply has no such field
GetIssues(r) == IF "issues" \in DOMAIN r THEN r.issues ELSE <<>>

TargetMet(r, min) ==
    r.pass /\ Len(GetIssues(r)) = 0 /\ r.overall_score >= min

\* line 32: for i in range(max_iterations)
InRange_OffByOne(k, n) == k <= n

InRange(k, n) == k < n

\* line 62: return rating (the most recent report, None when no round ran)
ExhaustedReturn_Best(rating_, reports_) ==
    IF reports_ = <<>> THEN rating_
    ELSE <<CHOOSE r \in {reports_[k] : k \in 1..Len(reports_)} :
             \A k \in 1..Len(reports_) : r.overall_score >= reports_[k].overall_score>>

ExhaustedReturn(rating_, reports_) == rating_

\* lines 26-31: the draft must exist, else FileNotFoundError
IterateEnter ==
    /\ pc = "iterate"
    /\ IF draft_exists
         THEN /\ pc' = "iter_loop"
              /\ rating' = <<>>
              /\ i' = 0
         ELSE /\ pc' = "raised"
              /\ UNCHANGED <<rating, i>>
    /\ UNCHANGED <<extVars, mode, trace, runVars, safetyVars, mediaVars, draft_exists, max_iterations, min_score, reports, ret>>

\* line 32 and lines 61-62: next round, or the budget is exhausted
IterateLoop ==
    /\ pc = "iter_loop"
    /\ IF InRange(i, max_iterations)
         THEN /\ pc' = "iter_polish"
              /\ ret' = ret
         ELSE /\ pc' = "iter_returned"
              /\ ret' = ExhaustedReturn(rating, reports)
    /\ UNCHANGED <<extVars, mode, trace, runVars, safetyVars, mediaVars, draft_exists, max_iterations, min_score, i, rating, reports>>

\* a write of a file of the output directory by round pass_
FileWrite(file, pass_, content) == [file |-> file, pass |-> pass_, content |-> content]

\* polish.py lines 240-242: every speech request of the voiceover succeeded
Spoken(requests, n) ==
    /\ n > 0
    /\ Len(requests) = n
    /\ \A k \in 1..Len(requests) : requests[k].outcome = "ok"

\* polish.py lines 178 and 241: the joined voiceover is written to
\* output/_tts_voiceover.mp3
VoiceoverWrites(requests, n, pass_) ==
    IF Spoken(requests, n) THEN <<FileWrite("_tts_voiceover", pass_, <<>>)>> ELSE <<>>

\* lines 35-42: polish(script_path, draft_path=draft_path, ...) ; an error propagates
IteratePolish ==
    /\ pc = "iter_polish"
    /\ \E out \in PolishOutcomes(voiceover, Len(segments), keys, Version(final) + 1) :
         /\ calls' = calls \o out.calls
         /\ error' = out.error
         /\ IF out.ok
              THEN /\ trace' = Append(trace, "polish")
                   /\ final' = Written(final)
                   /\ written' = written
                                    \o VoiceoverWrites(out.calls, Len(segments), Version(final) + 1)
                                    \o <<FileWrite("final", Version(final) + 1, <<>>)>>
                   /\ pc' = "iter_rate"
              ELSE /\ pc' = "raised"
                   /\ trace' = trace
                   /\ final' = final
                   \* the failure is before or after the write of the voiceover
                   /\ \E joined \in BOOLEAN :
                        written' = IF joined
                                     THEN written \o VoiceoverWrites(out.calls, Len(segments),
                                                                     Version(final) + 1)
                                     ELSE written
    /\ UNCHANGED <<polishArgs, clips_loaded, envVars, mode, runVars, iterVars, safetyVars, mediaVars>>

\* rate.py line 202: json.loads(raw) raises on a reply that is not JSON
IsJson(reply) == "raw" \notin DOMAIN reply

\* iterate.py line 51: rating['overall_score'] and rating['pass'] must be present
HasPrintedFields(reply) == {"overall_score", "pass"} \subseteq DOMAIN reply

\* lines 45-59: rate_video(out, ...) returns the parsed reply or raises; the
\* reply is printed (line 51) and tested (line 57)
IterateRate ==
    /\ pc = "iter_rate"
    /\ IF "OPENAI_API_KEY" \notin keys
         THEN /\ pc' = "raised"
              /\ error' = <<KeyMissing("ValueError", "OPENAI_API_KEY")>>
              /\ UNCHANGED <<rating, reports, trace, ret, i, calls, written>>
         ELSE \/ /\ pc' = "raised"
                 /\ calls' = Append(calls, Call("rate", 0, Version(final), "error"))
                 /\ UNCHANGED <<rating, reports, trace, ret, i, error, written>>
              \/ \E r \in replies :
                   IF ~IsJson(r)
                     THEN /\ pc' = "raised"
                          /\ calls' = Append(calls, Call("rate", 0, Version(final), "unparsable"))
                          /\ UNCHANGED <<rating, reports, trace, ret, i, error, written>>
                     ELSE /\ calls' = Append(calls, Call("rate", 0, Version(final), "ok"))
                          /\ rating' = <<r>>
                          /\ reports' = Append(reports, r)
                          /\ trace' = Append(trace, "rate")
                          /\ error' = error
                          /\ written' = Append(written, FileWrite("rating", Version(final), <<r>>))
                          /\ IF ~HasPrintedFields(r)
                               THEN /\ ret' = ret
                                    /\ pc' = "raised"
                                    /\ i' = i
                             ELSE IF TargetMet(r, min_score)
                               THEN /\ ret' = <<r>>
                                    /\ pc' = "iter_returned"
                                    /\ i' = i
                               ELSE /\ ret' = ret
                                    /\ pc' = "iter_loop"
                                    /\ i' = i + 1
    /\ UNCHANGED <<polishVars, clips_loaded, envVars, mode, runVars, safetyVars, mediaVars,
                   draft_exists, max_iterations, min_score>>

InitIterate ==
    /\ pc = "iterate"
    /\ mode = "iterate"
    /\ trace = <<>>
    /\ IdleExt
    /\ IdleRun
    /\ IdleSafety
    /\ IdleMedia
    /\ draft_exists \in BOOLEAN
    /\ max_iterations \in 0..MaxIterations
    /\ min_score \in MinScoreValues
    /\ i = 0
    /\ rating = <<>>
    /\ reports = <<>>
    /\ ret = <<>>

\* replies that are not a report of the fixed shape: not JSON, or JSON
\* without overall_score, without pass or without issues
MalformedReplies ==
    { [raw |-> "not json"],
      [pass |-> TRUE, issues |-> <<>>],
      [overall_score |-> DefaultMinScore + 1, issues |-> <<>>],
      [overall_score |-> DefaultMinScore + 1, pass |-> TRUE],
      [overall_score |-> DefaultMinScore - 1, pass |-> FALSE] }

\* one well-formed reply that meets the target and one that does not
WellFormedReplies ==
    { [pass |-> TRUE,  issues |-> <<>>, overall_score |-> DefaultMinScore + 1],
      [pass |-> FALSE, issues |-> <<"issue">>, overall_score |-> DefaultMinScore - 1] }

\* iterate with an evaluator that may reply anything
InitEvaluator ==
    /\ pc = "iterate"
    /\ mode = "iterate"
    /\ trace = <<>>
    /\ IdlePolish
    /\ error = <<>>
    /\ clips_loaded = 0
    /\ written = <<>>
    /\ keys = AllKeys
    /\ replies = WellFormedReplies \cup MalformedReplies
    /\ IdleAux
    /\ calls = <<>>
    /\ IdleRun
    /\ IdleSafety
    /\ IdleMedia
    /\ draft_exists \in BOOLEAN
    /\ max_iterations \in 0..MaxIterations
    /\ min_score \in MinScoreValues
    /\ i = 0
    /\ rating = <<>>
    /\ reports = <<>>
    /\ ret = <<>>

NextIterate ==
    \/ IterateEnter
    \/ IterateLoop
    \/ IteratePolish
    \/ IterateRate

SpecIterate == InitIterate /\ [][NextIterate]_vars

SpecEvaluator == InitEvaluator /\ [][NextIterate]_vars

(***************************************************************************)
(* Claims about iterate.iterate (checked under SpecIterate).                *)
(***************************************************************************)
\* the success condition as the specification words it
SuccessCondition(r) ==
    r.overall_score >= min_score /\ r.pass = TRUE /\ r.issues = <<>>

\* C1: iterate performs at most max_iterations polish->rate rounds; the first
\* round whose report has overall_score >= min_score, pass = true and no issues
\* is the last round (no polish or rate runs after it) and iterate returns
\* exactly that round's report.
C1_StopsAtFirstSuccess ==
    /\ Count(trace, "polish") <= max_iterations
    /\ Count(trace, "rate") <= max_iterations
    /\ Len(reports) = Count(trace, "rate")
    /\ Count(trace, "rate") <= Count(trace, "polish")
    /\ Count(trace, "polish") <= Count(trace, "rate") + 1
    /\ \A k \in 1..Len(reports) :
         SuccessCondition(reports[k]) =>
            /\ k = Len(reports)
            /\ Count(trace, "polish") = k
            /\ pc = "iter_returned"
            /\ ret = <<reports[k]>>

\* C1 witness: a call with budget 3 that met the target in its second round
C1_Witness ==
    /\ pc = "iter_returned"
    /\ max_iterations = 3
    /\ Len(reports) = 2
    /\ ~SuccessCondition(reports[1])
    /\ SuccessCondition(reports[2])
    /\ ret = <<reports[2]>>

\* C2: when no round's report satisfies the success condition, a call that
\* returns has run exactly max_iterations rounds and returns the report of the
\* last round (None when max_iterations = 0), not the best-scoring one.
C2_ExhaustedReturnsLast ==
    (pc = "iter_returned" /\ \A k \in 1..Len(reports) : ~SuccessCondition(reports[k])) =>
        /\ Len(reports) = max_iterations
        /\ Count(trace, "polish") = max_iterations
        /\ Count(trace, "rate") = max_iterations
        /\ ret = (IF max_iterations = 0 THEN <<>> ELSE <<reports[max_iterations]>>)

\* C2 witness: budget 3, every report pass = false, the first report scores
\* higher than the third, and the third is what is returned
C2_Witness ==
    /\ pc = "iter_returned"
    /\ max_iterations = 3
    /\ Len(reports) = 3
    /\ \A k \in 1..3 : reports[k].pass = FALSE
    /\ reports[1].overall_score > reports[3].overall_score
    /\ ret = <<reports[3]>>

(***************************************************************************)
(* run.run and run.run_hamilton: the order of the stage calls.  A stage    *)
(* that raises ends the run (pc = "raised"); a completed stage is appended *)
(* to trace.                                                               *)
(***************************************************************************)
\* run.py line 178: run returns right after iterate(...)
AfterIterate_FallThrough == "polish"

AfterIterate == "done"

\* run.py lines 62, 148: what follows the script resolution
AfterResolve(mode_) == IF mode_ = "hamilton" THEN "h_validate" ELSE "scout"

\* run.py lines 167-181 (run) and 91 (run_hamilton): what follows director
AfterDirector(mode_, iterate_rate_) ==
    IF mode_ = "run" /\ iterate_rate_ THEN "iterate" ELSE "polish"

\* run.py lines 201-215 (run) and 108 (run_hamilton): what follows the safety check
AfterSafety(mode_, rate_) ==
    IF mode_ = "run" /\ rate_ THEN "rate" ELSE "done"

\* run.py lines 130-146 / 47-60: use the script file, or write_script(topic)
RunResolve ==
    /\ pc = "run_start"
    /\ IF script_exists
         THEN /\ pc' = AfterResolve(mode)
              /\ UNCHANGED <<trace, calls, error>>
         ELSE IF "OPENAI_API_KEY" \notin keys
           THEN /\ pc' = "raised"
                /\ error' = <<KeyMissing("ValueError", "OPENAI_API_KEY")>>
                /\ UNCHANGED <<trace, calls>>
           ELSE \E ok \in BOOLEAN :
                  IF ok THEN /\ pc' = AfterResolve(mode)
                             /\ trace' = Append(trace, "script")
                             /\ calls' = Append(calls, Call("script", 0, 0, "ok"))
                             /\ error' = error
                        ELSE /\ pc' = "raised"
                             /\ trace' = trace
                             /\ calls' = Append(calls, Call("script", 0, 0, "error"))
                             /\ error' = error
    /\ UNCHANGED <<polishVars, clips_loaded, written, envVars, mode, runVars, iterVars, safetyVars, mediaVars>>

\* run.py lines 62-67: run_hamilton rejects a script with no segments; every
\* segment parse_script returns has a query, so the test for lyrics passes
HamiltonValidate ==
    /\ pc = "h_validate"
    /\ IF segments # <<>>
         THEN /\ pc' = "h_song"
              /\ error' = error
         ELSE /\ pc' = "raised"
              /\ error' = <<NoSegmentsError>>
    /\ UNCHANGED <<polishVars, clips_loaded, written, envVars, calls, mode, trace, runVars, iterVars,
                   safetyVars, mediaVars>>

\* run.py lines 69-77: generate_song
HamiltonSong ==
    /\ pc = "h_song"
    /\ IF "ELEVENLABS_API_KEY" \notin keys
         THEN /\ pc' = "raised"
              /\ error' = <<KeyMissing("RuntimeError", "ELEVENLABS_API_KEY")>>
              /\ UNCHANGED <<trace, calls>>
         ELSE \E ok \in BOOLEAN :
                IF ok THEN /\ pc' = "scout"
                           /\ trace' = Append(trace, "song")
                           /\ calls' = Append(calls, Call("song", 0, 0, "ok"))
                           /\ error' = error
                      ELSE /\ pc' = "raised"
                           /\ trace' = trace
                           /\ calls' = Append(calls, Call("song", 0, 0, "error"))
                           /\ error' = error
    /\ UNCHANGED <<polishVars, clips_loaded, written, envVars, mode, runVars, iterVars, safetyVars, mediaVars>>

\* run.py lines 148-151 / 79-81: scout
RunScout ==
    /\ pc = "scout"
    /\ \E out \in ScoutOutcomes(Len(segments), single_clip \/ mode = "hamilton", keys) :
         /\ calls' = calls \o out.calls
         /\ error' = out.error
         /\ IF out.ok THEN /\ pc' = "director"
                           /\ trace' = Append(trace, "fetch")
                      ELSE /\ pc' = "raised"
                           /\ trace' = trace
    /\ UNCHANGED <<polishVars, clips_loaded, written, envVars, mode, runVars, iterVars, safetyVars, mediaVars>>

\* run.py lines 153-178 / 83-89: director writes the draft; run then enters
\* iterate (iterate_rate) or the single polish pass
RunDirector ==
    /\ pc = "director"
    /\ \E ok \in BOOLEAN :
         IF ok THEN /\ pc' = AfterDirector(mode, iterate_rate)
                    /\ trace' = Append(trace, "assemble")
                    /\ draft_exists' = TRUE
               ELSE /\ pc' = "raised"
                    /\ trace' = trace
                    /\ draft_exists' = draft_exists
    /\ UNCHANGED <<extVars, mode, runVars, safetyVars, mediaVars, max_iterations, min_score, i, rating, reports, ret>>

\* run.py line 178: iterate returned, run returns the final path
RunAfterIterate ==
    /\ pc = "iter_returned"
    /\ pc' = AfterIterate
    /\ UNCHANGED <<extVars, mode, trace, runVars, iterVars, safetyVars, mediaVars>>

\* run.py lines 180-189 / 91-97: the single polish pass
RunPolish ==
    /\ pc = "polish"
    /\ \E out \in PolishOutcomes(voiceover /\ mode = "run", Len(segments), keys,
                                 Version(final) + 1) :
         /\ calls' = calls \o out.calls
         /\ error' = out.error
         /\ IF out.ok THEN /\ pc' = "safety"
                           /\ trace' = Append(trace, "polish")
                           /\ final' = Written(final)
                      ELSE /\ pc' = "raised"
                           /\ trace' = trace
                           /\ final' = final
    /\ UNCHANGED <<polishArgs, clips_loaded, written, envVars, mode, runVars, iterVars, safetyVars, mediaVars>>

\* run.py lines 191-199 / 99-106: safety_check
RunSafety ==
    /\ pc = "safety"
    /\ \E out \in SafetyOutcomes(keys, Version(final)) :
         /\ calls' = calls \o out.calls
         /\ error' = out.error
         /\ IF out.ok THEN /\ pc' = AfterSafety(mode, rate)
                           /\ trace' = Append(trace, "safety")
                      ELSE /\ pc' = "raised"
                           /\ trace' = trace
    /\ UNCHANGED <<polishVars, clips_loaded, written, envVars, mode, runVars, iterVars, safetyVars, mediaVars>>

\* run.py lines 201-215: the optional one-shot rate_video
RunRate ==
    /\ pc = "rate"
    /\ \E out \in RateOutcomes(keys, Version(final)) :
         /\ calls' = calls \o out.calls
         /\ error' = out.error
         /\ IF out.ok THEN /\ pc' = "done"
                           /\ trace' = Append(trace, "rate")
                      ELSE /\ pc' = "raised"
                           /\ trace' = trace
    /\ UNCHANGED <<polishVars, clips_loaded, written, envVars, mode, runVars, iterVars, safetyVars, mediaVars>>

\* the segments parse_script returns for the script of the run
RunSegment == [query |-> <<"w4">>, duration_seconds |-> DefaultRunDuration, text |-> <<"w4">>]

RunSegmentLists == {[k \in 1..n |-> RunSegment] : n \in 0..MaxRunSegments}

\* a run in a configured environment on a script of one segment, without
\* voiceover: main(): --hamilton ignores --iterate and --rate
InitRun ==
    /\ pc = "run_start"
    /\ mode \in {"run", "hamilton"}
    /\ trace = <<>>
    /\ IdleExt
    /\ script_exists \in BOOLEAN
    /\ iterate_rate \in (IF mode = "run" THEN BOOLEAN ELSE {FALSE})
    /\ rate \in (IF mode = "run" THEN BOOLEAN ELSE {FALSE})
    /\ draft_exists = FALSE
    /\ max_iterations \in 0..MaxIterations
    /\ min_score = DefaultMinScore
    /\ i = 0
    /\ rating = <<>>
    /\ reports = <<>>
    /\ ret = <<>>
    /\ IdleSafety
    /\ script = <<>>
    /\ segments = <<RunSegment>>
    /\ clip_durations = <<>>
    /\ single_clip = FALSE
    /\ target_duration = <<>>
    /\ draft = <<>>
    /\ ov_k = 1
    /\ t = 0
    /\ text_clips = <<>>

NextRun ==
    \/ RunResolve
    \/ HamiltonValidate
    \/ HamiltonSong
    \/ RunScout
    \/ RunDirector
    \/ IterateEnter
    \/ IterateLoop
    \/ IteratePolish
    \/ IterateRate
    \/ RunAfterIterate
    \/ RunPolish
    \/ RunSafety
    \/ RunRate

Spec == InitRun /\ [][NextRun]_vars

(***************************************************************************)
(* The same pipeline in any environment: credentials that may be missing,  *)
(* scripts of zero or more segments, single-clip mode and voiceover.       *)
(***************************************************************************)
MaxRounds == 1

\* one reply that meets the target and one that does not
PipelineReplies ==
    { [pass |-> TRUE,  issues |-> <<>>, overall_score |-> DefaultMinScore],
      [pass |-> FALSE, issues |-> <<"i1">>, overall_score |-> DefaultMinScore - 1] }

\* main(): --hamilton ignores --iterate, --rate, --voiceover and --single-clip
InitPipeline ==
    /\ pc = "run_start"
    /\ mode \in {"run", "hamilton"}
    /\ trace = <<>>
    /\ video_duration = 0
    /\ music = <<>>
    /\ music_audio = <<>>
    /\ voiceover \in (IF mode = "run" THEN BOOLEAN ELSE {FALSE})
    /\ audio_clips = <<>>
    /\ final_audio = <<>>
    /\ final = <<>>
    /\ error = <<>>
    /\ clips_loaded = 0
    /\ written = <<>>
    /\ keys \in SUBSET AllKeys
    /\ replies = PipelineReplies
    /\ IdleAux
    /\ calls = <<>>
    /\ script_exists \in BOOLEAN
    /\ iterate_rate \in (IF mode = "run" THEN BOOLEAN ELSE {FALSE})
    /\ rate \in (IF mode = "run" /\ ~iterate_rate THEN BOOLEAN ELSE {FALSE})
    /\ draft_exists = FALSE
    /\ max_iterations \in (IF iterate_rate THEN 0..MaxRounds ELSE {MaxRounds})
    /\ min_score = DefaultMinScore
    /\ i = 0
    /\ rating = <<>>
    /\ reports = <<>>
    /\ ret = <<>>
    /\ IdleSafety
    /\ script = <<>>
    /\ segments \in RunSegmentLists
    /\ clip_durations = <<>>
    /\ single_clip \in (IF mode = "run" THEN BOOLEAN ELSE {FALSE})
    /\ target_duration = <<>>
    /\ draft = <<>>
    /\ ov_k = 1
    /\ t = 0
    /\ text_clips = <<>>

SpecPipeline == InitPipeline /\ [][NextRun]_vars

(***************************************************************************)
(* Claims about the pipeline (checked under Spec).                          *)
(***************************************************************************)
\* the stages of the run, leaving out song synthesis
RECURSIVE Stages(_)
Stages(s) ==
    IF s = <<>> THEN <<>>
    ELSE IF Head(s) = "song" THEN Stages(Tail(s))
    ELSE <<Head(s)>> \o Stages(Tail(s))

\* C5: in every pipeline run that completes successfully (and has produced a
\* final artifact) the safety check is executed exactly once, after the final
\* artifact has been produced.
C5_SafetyOnceAfterFinal ==
    (pc = "done" /\ Positions(trace, "polish") # {}) =>
        /\ Count(trace, "safety") = 1
        /\ \A p \in Positions(trace, "polish") :
             \A q \in Positions(trace, "safety") : p < q

\* successions of stages the claimed order script -> fetch -> assemble ->
\* polish -> rate -> safety allows (rate optional, polish -> rate repeatable)
ClaimedSuccessions ==
    { <<"script", "fetch">>, <<"fetch", "assemble">>, <<"assemble", "polish">>,
      <<"polish", "rate">>, <<"polish", "safety">>, <<"rate", "safety">>,
      <<"rate", "polish">> }

OrderedBy(successions) ==
    LET st == Stages(trace) IN
    /\ st # <<>> => st[1] \in {"script", "fetch"}
    /\ \A k \in 1..(Len(st) - 1) : <<st[k], st[k + 1]>> \in successions
    /\ \A x \in {"script", "fetch", "assemble", "safety"} : Count(st, x) <= 1
    /\ Count(st, "polish") <= (IF mode = "run" /\ iterate_rate THEN max_iterations ELSE 1)
    /\ Count(st, "rate") <= (IF mode = "run" /\ iterate_rate THEN max_iterations ELSE 1)

MaxResults == 1
MaxTriggered == 1

\* safety_rate.py lines 43-50
HARD_FLAG_CATEGORIES ==
    { <<"sexual">>,
      <<"sexual", "/", "minors">>,
      <<"violence", "/", "graphic">>,
      <<"hate", "/", "threatening">>,
      <<"self", "-", "harm", "/", "intent">>,
      <<"self", "-", "harm", "/", "instructions">> }

\* categories of the moderation endpoint the model draws from: the hard ones
\* and three that are not hard
ModerationCategories ==
    HARD_FLAG_CATEGORIES \cup { <<"violence">>, <<"hate">>, <<"self", "-", "harm">> }

\* str.replace(a, b) on a token sequence
RECURSIVE Replace(_, _, _)
Replace(s, a, b) ==
    IF s = <<>> THEN <<>>
    ELSE <<(IF Head(s) = a THEN b ELSE Head(s))>> \o Replace(Tail(s), a, b)

\* the key under which result.categories.__dict__ holds a category: the
\* Python attribute name (sexual_minors, self_harm_intent, ...)
AttributeName(c) == Replace(Replace(c, "/", "_"), "-", "_")

CategoryKeys == {AttributeName(c) : c \in ModerationCategories}

\* one moderation result: the keys whose value in result.categories is True;
\* result.flagged is set when any category is
ModerationResults ==
    { [flagged |-> (tr # {}), categories |-> tr] :
        tr \in {x \in SUBSET CategoryKeys : Cardinality(x) <= MaxTriggered} }

RECURSIVE SeqsUpTo(_, _)
SeqsUpTo(S, n) ==
    IF n = 0 THEN {<<>>}
    ELSE LET shorter == SeqsUpTo(S, n - 1) IN
         shorter \cup {Append(q, x) : q \in {y \in shorter : Len(y) = n - 1}, x \in S}

\* a set as a sequence, in some fixed order (dict iteration order)
RECURSIVE SetToSeq(_)
SetToSeq(S) ==
    IF S = {} THEN <<>>
    ELSE LET x == CHOOSE y \in S : TRUE IN <<x>> \o SetToSeq(S \ {x})

\* safety_rate.py line 79: triggered and cat.replace("_", "/") in HARD_FLAG_CATEGORIES
IsHardFlag(cat) == Replace(cat, "_", "/") \in HARD_FLAG_CATEGORIES

\* safety_rate.py lines 66-86: fold over the results of every chunk
RECURSIVE HardFlags(_)
HardFlags(results) ==
    IF results = <<>> THEN <<>>
    ELSE SelectSeq(SetToSeq(Head(results).categories), IsHardFlag) \o HardFlags(Tail(results))

\* safety_rate.py lines 53-86
RunTextModeration(empty, results) ==
    IF empty
      THEN [flagged |-> FALSE, hard_flags |-> <<>>]
      ELSE [flagged |-> \E k \in 1..Len(results) : results[k].flagged,
            hard_flags |-> HardFlags(results)]

\* safety_rate.py lines 9-14, 210-217
Criteria ==
    {"text_safety", "visual_safety", "topic_safety", "factual_plausibility",
     "audience_suitability", "platform_compliance"}

Verdicts == {"approved", "needs_review", "rejected"}

\* scores the evaluator may give: one representative of each band (<= 3, 4..6, >= 7)
SafetyScoreValues == {3, 5, 7}

\* score tables the model draws from: all criteria alike except at most one
SafetyScoreTables ==
    { [c \in Criteria |-> IF c = d THEN v ELSE w] :
        d \in Criteria, v \in SafetyScoreValues, w \in SafetyScoreValues }

\* safety_rate.py lines 233-241: json.loads(raw), whatever the evaluator wrote
EvaluatorResponses ==
    [safe : BOOLEAN, verdict : Verdicts, scores : SafetyScoreTables, flags : {<<>>}]

\* safety_rate.py lines 105-113: text moderation (a failed request raises)
SafetyModerate ==
    /\ pc = "s_moderate"
    /\ \/ /\ moderation' = RunTextModeration(text_empty, mod_results)
          /\ triggered' = IF text_empty THEN {}
                          ELSE UNION {mod_results[k].categories : k \in 1..Len(mod_results)}
          /\ pc' = "s_vision"
       \/ /\ ~text_empty
          /\ pc' = "raised"
          /\ UNCHANGED <<moderation, triggered>>
    /\ UNCHANGED <<extVars, mode, trace, runVars, iterVars, mediaVars, text_empty, mod_results, result>>

\* safety_rate.py lines 115-241: frames, evaluator request, json.loads
SafetyVision ==
    /\ pc = "s_vision"
    /\ \/ \E resp \in EvaluatorResponses :
            /\ result' = <<resp>>
            /\ pc' = "s_merge"
       \/ /\ pc' = "raised"
          /\ result' = result
    /\ UNCHANGED <<extVars, mode, trace, runVars, iterVars, mediaVars, text_empty, mod_results,
                   moderation, triggered>>

\* safety_rate.py lines 243-249: hard flags override the evaluator's verdict
MergeHardFlags(res, mod) ==
    IF Len(mod.hard_flags) > 0
      THEN [res EXCEPT !.flags = res.flags \o mod.hard_flags,
                       !.verdict = "rejected",
                       !.safe = FALSE]
      ELSE res

\* safety_rate.py lines 243-264: merge, write the report, return it
SafetyMerge ==
    /\ pc = "s_merge"
    /\ result' = <<MergeHardFlags(result[1], moderation)>>
    /\ pc' = "s_returned"
    /\ UNCHANGED <<extVars, mode, trace, runVars, iterVars, mediaVars, text_empty, mod_results,
                   moderation, triggered>>

InitSafety ==
    /\ pc = "s_moderate"
    /\ mode = "safety"
    /\ trace = <<>>
    /\ IdleExt
    /\ IdleRun
    /\ IdleIterate
    /\ IdleMedia
    /\ text_empty \in BOOLEAN
    /\ mod_results \in (IF text_empty THEN {<<>>}
                        ELSE SeqsUpTo(ModerationResults, MaxResults) \ {<<>>})
    /\ moderation = [flagged |-> FALSE, hard_flags |-> <<>>]
    /\ triggered = {}
    /\ result = <<>>

NextSafety ==
    \/ SafetyModerate
    \/ SafetyVision
    \/ SafetyMerge

SpecSafety == InitSafety /\ [][NextSafety]_vars

(***************************************************************************)
(* Claims about safety_check (checked under SpecSafety).                    *)
(***************************************************************************)
\* C3: whenever the text moderation result triggers any of the hard-flag
\* categories (sexual, sexual/minors, violence/graphic, hate/threatening,
\* self-harm/intent, self-harm/instructions), safety_check returns verdict
\* "rejected" and safe = false, whatever the evaluator's own verdict was.
C3_HardFlagForcesRejected ==
    (pc = "s_returned" /\ \E c \in HARD_FLAG_CATEGORIES : AttributeName(c) \in triggered) =>
        /\ result[1].verdict = "rejected"
        /\ result[1].safe = FALSE

\* C4: when no hard flag is raised, the verdict of the returned report follows
\* the score bands: approved only if every score is >= 7, needs_review when
\* some score is in 4..6 and none is <= 3, rejected when any score is <= 3.
C4_VerdictFollowsBands ==
    (pc = "s_returned" /\ moderation.hard_flags = <<>>) =>
        LET sc == result[1].scores
            v  == result[1].verdict
        IN  /\ v = "approved" => \A c \in Criteria : sc[c] >= 7
            /\ ((\E c \in Criteria : sc[c] \in 4..6) /\ (\A c \in Criteria : sc[c] > 3))
                  => v = "needs_review"
            /\ (\E c \in Criteria : sc[c] <= 3) => v = "rejected"

(***************************************************************************)
(* Segments as parse_script returns them: query and text are sequences of  *)
(* tokens, duration_seconds a natural number (the digits of DURATION).     *)
(***************************************************************************)
MaxSegments == 2
MaxSegDuration == 2
MaxClipDuration == 2
MaxTarget == 2

Min(a, b) == IF a <= b THEN a ELSE b

\* sum(s.duration_seconds for s in segments[:n])
RECURSIVE SumDurations(_, _)
SumDurations(segs, n) ==
    IF n = 0 THEN 0 ELSE SumDurations(segs, n - 1) + segs[n].duration_seconds

RECURSIVE SumSeq(_)
SumSeq(q) == IF q = <<>> THEN 0 ELSE Head(q) + SumSeq(Tail(q))

SegDurationValues == 0..MaxSegDuration

(***************************************************************************)
(* director.director                                                        *)
(***************************************************************************)
\* native durations of the clips on disk; 12 is the asset of the tiling scenario
ClipDurationValues == (1..MaxClipDuration) \cup {12}

\* target_duration: None, or a positive length; 30 and 35 are the scenarios' targets
TargetValues == {<<>>} \cup {<<d>> : d \in (1..MaxTarget) \cup {30, 35}}

DirectorSegments ==
    SeqsUpTo([query : {<<"q">>}, duration_seconds : SegDurationValues, text : {<<>>}],
             MaxSegments)

\* director.py line 69
TotalDuration(target, segs) ==
    IF target # <<>> THEN target[1] ELSE SumDurations(segs, Len(segs))

\* director.py lines 97-98: duration = min(seg.duration_seconds, clip.duration)
SliceDuration_Stretch(seg_duration, clip_duration) == seg_duration

SliceDuration(seg_duration, clip_duration) == Min(seg_duration, clip_duration)

\* director.py line 81: n = int(total_duration / normalized.duration) + 1
TileCount_NoExtra(total, d) == total \div d

TileCount(total, d) == (total \div d) + 1

\* director.py lines 75-83: trim, tile when shorter, trim to the total
SingleClipDraft(total, clip_duration) ==
    LET duration == Min(total, clip_duration)
        n == IF duration < total THEN TileCount(total, duration) ELSE 1
    IN  [slices |-> <<duration>>, copies |-> n, tiled |-> n * duration, duration |-> total]

\* director.py lines 90-102: the first len(segments) clips, each trimmed, chained
RECURSIVE Slices(_, _, _)
Slices(segs, clips, n) ==
    IF n = 0 THEN <<>>
    ELSE Append(Slices(segs, clips, n - 1),
                SliceDuration(segs[n].duration_seconds, clips[n]))

PerSegmentDraft(segs, clips) ==
    LET sl == Slices(segs, clips, Len(segs))
    IN  [slices |-> sl, copies |-> 1, tiled |-> SumSeq(sl), duration |-> SumSeq(sl)]

\* director.py lines 73-74: ValueError("No clips found. Run Scout with --single-clip first.")
NoClipsError ==
    [type |-> "ValueError", text |-> "No clips found", found |-> 0, need |-> 1,
     remedy |-> "Run Scout with --single-clip first"]

\* director.py lines 86-89: ValueError(f"Not enough clips: found {len(clip_paths)},
\* need {len(segments)}. " "Run Scout first: python -m src.scout <script>")
NotEnoughClipsError_Swapped(found, need) ==
    [type |-> "ValueError", text |-> "Not enough clips", found |-> need, need |-> found,
     remedy |-> "Run Scout first"]

NotEnoughClipsError(found, need) ==
    [type |-> "ValueError", text |-> "Not enough clips", found |-> found, need |-> need,
     remedy |-> "Run Scout first"]

\* an error of the media library on a timeline of length 0
MediaError ==
    [type |-> "MediaError", text |-> "empty timeline", found |-> 0, need |-> 0, remedy |-> ""]

\* director.py lines 64-110.  A timeline of length 0 (no segment, or only
\* DURATION 0) is left to the media library, which may write it or raise.
Director ==
    /\ pc = "director_call"
    /\ LET total == TotalDuration(target_duration, segments) IN
       IF single_clip
         THEN IF clip_durations = <<>>
                THEN /\ pc' = "raised"
                     /\ error' = <<NoClipsError>>
                     /\ clips_loaded' = 0
                     /\ draft' = draft
                ELSE /\ clips_loaded' = 1
                     /\ IF total = 0
                          THEN \/ /\ pc' = "raised"
                                  /\ error' = <<MediaError>>
                                  /\ draft' = draft
                               \/ /\ pc' = "d_returned"
                                  /\ error' = error
                                  /\ draft' = <<[slices |-> <<0>>, copies |-> 1, tiled |-> 0, duration |-> 0]>>
                          ELSE /\ pc' = "d_returned"
                               /\ error' = error
                               /\ draft' = <<SingleClipDraft(total, clip_durations[1])>>
         ELSE IF Len(clip_durations) < Len(segments)
                THEN /\ pc' = "raised"
                     /\ error' = <<NotEnoughClipsError(Len(clip_durations), Len(segments))>>
                     /\ clips_loaded' = 0
                     /\ draft' = draft
                ELSE /\ clips_loaded' = Len(segments)
                     /\ IF PerSegmentDraft(segments, clip_durations).duration = 0
                          THEN \/ /\ pc' = "raised"
                                  /\ error' = <<MediaError>>
                                  /\ draft' = draft
                               \/ /\ pc' = "d_returned"
                                  /\ error' = error
                                  /\ draft' = <<PerSegmentDraft(segments, clip_durations)>>
                          ELSE /\ pc' = "d_returned"
                               /\ error' = error
                               /\ draft' = <<PerSegmentDraft(segments, clip_durations)>>
    /\ UNCHANGED <<polishVars, envVars, calls, written, mode, trace, runVars, iterVars,
                   safetyVars, script, segments, clip_durations, single_clip, target_duration,
                   ov_k, t, text_clips>>

InitDirector ==
    /\ pc = "director_call"
    /\ mode = "director"
    /\ trace = <<>>
    /\ IdleExt
    /\ IdleRun
    /\ IdleIterate
    /\ IdleSafety
    /\ script = <<>>
    /\ segments \in DirectorSegments
    /\ clip_durations \in SeqsUpTo(ClipDurationValues, MaxSegments + 1)
    /\ single_clip \in BOOLEAN
    /\ target_duration \in (IF single_clip THEN TargetValues ELSE {<<>>})
    /\ draft = <<>>
    /\ ov_k = 1
    /\ t = 0
    /\ text_clips = <<>>

NextDirector == Director

SpecDirector == InitDirector /\ [][NextDirector]_vars

(***************************************************************************)
(* Claims about director (checked under SpecDirector).                      *)
(***************************************************************************)
\* C7: in per-segment mode each slice lasts min(segment.duration_seconds, clip
\* native duration) of the clip paired with the segment (trimmed, never
\* stretched or looped), and the draft's length is the sum of these minima,
\* which never exceeds the sum of the segment durations.
C7_PerSegmentMinimum ==
    (pc = "d_returned" /\ ~single_clip) =>
        LET d == draft[1] IN
        /\ Len(d.slices) = Len(segments)
        /\ d.copies = 1
        /\ \A k \in 1..Len(segments) :
             /\ d.slices[k] <= clip_durations[k]
             /\ d.slices[k] <= segments[k].duration_seconds
             /\ d.slices[k] = clip_durations[k] \/ d.slices[k] = segments[k].duration_seconds
        /\ d.duration = SumSeq(d.slices)
        /\ d.duration <= SumDurations(segments, Len(segments))

\* C7 witness: a draft of two slices, the first cut short by its clip and the
\* second trimmed to its segment
C7_Witness ==
    /\ pc = "d_returned"
    /\ ~single_clip
    /\ Len(segments) = 2
    /\ clip_durations[1] < segments[1].duration_seconds
    /\ clip_durations[2] > segments[2].duration_seconds
    /\ draft[1].duration = clip_durations[1] + segments[2].duration_seconds
    /\ draft[1].duration < SumDurations(segments, 2)

\* C8: in single-clip mode the draft lasts exactly the target (target_duration,
\* else the sum of the segment durations) for every positive asset duration and
\* target: a longer asset is trimmed, a shorter one is repeated as whole copies
\* that reach or exceed the target and then trimmed (12 against 30: 3 copies).
C8_SingleClipExact ==
    (pc = "d_returned" /\ single_clip /\ TotalDuration(target_duration, segments) > 0) =>
        LET d == draft[1]
            target == IF target_duration = <<>>
                        THEN SumDurations(segments, Len(segments))
                        ELSE target_duration[1]
            asset == clip_durations[1]
        IN  /\ d.duration = target
            /\ d.tiled >= target
            /\ asset >= target => (d.copies = 1 /\ d.slices = <<target>>)
            /\ asset < target => (d.slices = <<asset>> /\ d.tiled = d.copies * asset)
            /\ (asset = 12 /\ target = 30) => d.copies = 3
            /\ (asset = 12 /\ target = 35) => d.copies = 3

\* C8 witness: the 12 against 30 scenario
C8_Witness ==
    /\ pc = "d_returned"
    /\ single_clip
    /\ clip_durations[1] = 12
    /\ target_duration = <<30>>
    /\ draft[1].copies = 3
    /\ draft[1].duration = 30


(***************************************************************************)
(* polish._wrap_text_at_words and polish.add_text_overlay.  A text is a    *)
(* sequence of tokens; " " is a blank, every other token is a run of       *)
(* letters whose length TokLen gives.                                        *)
(***************************************************************************)
\* polish.py line 79
max_line_chars == 22

IsSpace(tok) == tok \in {" ", "\n"}

\* len() of a token
TokLen(tok) ==
    CASE tok = "w4"  -> 4
      [] tok = "w12" -> 12
      [] tok = "w30" -> 30
      [] tok = "---" -> 3
      [] tok \in {"SEGMENT", "segment"} -> 7
      [] tok = "TEXT" -> 4
      [] tok = "LYRICS" -> 6
      [] tok = "DURATION" -> 8
      [] OTHER -> 1

\* text.split(): the maximal runs of non-blank tokens
RECURSIVE SplitWords(_, _)
SplitWords(text, current) ==
    IF text = <<>>
      THEN (IF current = <<>> THEN <<>> ELSE <<current>>)
      ELSE IF IsSpace(Head(text))
        THEN (IF current = <<>> THEN <<>> ELSE <<current>>) \o SplitWords(Tail(text), <<>>)
        ELSE SplitWords(Tail(text), Append(current, Head(text)))

Words(text) == SplitWords(text, <<>>)

RECURSIVE WordLen(_)
WordLen(w) == IF w = <<>> THEN 0 ELSE TokLen(Head(w)) + WordLen(Tail(w))

\* polish.py lines 29-44: the loop over the words; a line is a list of words
RECURSIVE WrapLoop(_, _, _, _, _)
WrapLoop(words, lines, current, current_len, max_chars) ==
    IF words = <<>>
      THEN (IF current # <<>> THEN Append(lines, current) ELSE lines)
      ELSE LET w == Head(words) IN
           IF current_len + WordLen(w) + (IF current # <<>> THEN 1 ELSE 0) <= max_chars
             THEN WrapLoop(Tail(words), lines, Append(current, w),
                           current_len + WordLen(w) + (IF current_len # 0 THEN 1 ELSE 0),
                           max_chars)
             ELSE WrapLoop(Tail(words),
                           (IF current # <<>> THEN Append(lines, current) ELSE lines),
                           <<w>>, WordLen(w), max_chars)

\* polish.py lines 37-43: " ".join(current)
RECURSIVE JoinWords(_)
JoinWords(words) ==
    IF words = <<>> THEN <<>>
    ELSE IF Len(words) = 1 THEN words[1]
    ELSE words[1] \o <<" ">> \o JoinWords(Tail(words))

\* every word of the caption on one line, whatever its length
WrapTextAtWords_OneLine(text, max_chars) ==
    IF Words(text) = <<>> THEN <<>> ELSE <<Words(text)>>

\* polish.py lines 27-44 and 87-91: the non-blank lines of the wrapped caption
WrapTextAtWords(text, max_chars) == WrapLoop(Words(text), <<>>, <<>>, 0, max_chars)

\* captions the overlay is exercised with: none, one line, two lines
OverlayTexts ==
    { <<>>, <<"w4">>, <<"w12", " ", "w4">>, <<"w12", " ", "w12">> }

OverlaySegments ==
    SeqsUpTo([query : {<<"q">>}, duration_seconds : SegDurationValues, text : OverlayTexts],
             MaxSegments)

\* polish.py lines 82-84: an empty caption only moves the cursor
EmptyCaptionCursor_Stuck(cursor, seg) == cursor

EmptyCaptionCursor(cursor, seg) == cursor + seg.duration_seconds

\* polish.py lines 119-127: one positioned clip per line, all starting at t
LineClips(k, seg, cursor) ==
    LET lines == WrapTextAtWords(seg.text, max_line_chars) IN
    [n \in 1..Len(lines) |->
        [seg |-> k, line |-> n, text |-> JoinWords(lines[n]), start |-> cursor,
         duration |-> seg.duration_seconds]]

\* polish.py lines 81-129: one pass of `for seg in segments`
OverlayStep ==
    /\ pc = "overlay_loop"
    /\ ov_k <= Len(segments)
    /\ LET seg == segments[ov_k] IN
       IF seg.text = <<>>
         THEN /\ t' = EmptyCaptionCursor(t, seg)
              /\ text_clips' = text_clips
         ELSE \* lines 108-110 and 129: no line clip, or some, the cursor moves on
              /\ text_clips' = text_clips \o LineClips(ov_k, seg, t)
              /\ t' = t + seg.duration_seconds
    /\ ov_k' = ov_k + 1
    /\ pc' = pc
    /\ UNCHANGED <<extVars, mode, trace, runVars, iterVars, safetyVars, script, segments,
                   clip_durations, single_clip, target_duration, draft>>

\* polish.py lines 131-134: the loop is over, the composite is returned
OverlayReturn ==
    /\ pc = "overlay_loop"
    /\ ov_k > Len(segments)
    /\ pc' = "o_returned"
    /\ UNCHANGED <<extVars, mode, trace, runVars, iterVars, safetyVars, mediaVars>>

InitOverlay ==
    /\ pc = "overlay_loop"
    /\ mode = "overlay"
    /\ trace = <<>>
    /\ IdleExt
    /\ IdleRun
    /\ IdleIterate
    /\ IdleSafety
    /\ script = <<>>
    /\ segments \in OverlaySegments
    /\ clip_durations = <<>>
    /\ single_clip = FALSE
    /\ target_duration = <<>>
    /\ draft = <<>>
    /\ ov_k = 1
    /\ t = 0
    /\ text_clips = <<>>

NextOverlay ==
    \/ OverlayStep
    \/ OverlayReturn

SpecOverlay == InitOverlay /\ [][NextOverlay]_vars

(***************************************************************************)
(* Claims about add_text_overlay (checked under SpecOverlay).               *)
(***************************************************************************)
\* C9: the caption of segment i starts at the sum of the durations of all
\* segments before i and lasts exactly segment i's own duration; caption start
\* times are non-decreasing in segment order; a segment with empty caption
\* advances the cursor by its duration and adds no rendered clip.
C9_CaptionCursor ==
    /\ t = SumDurations(segments, ov_k - 1)
    /\ \A j \in 1..Len(text_clips) :
         LET c == text_clips[j] IN
         /\ c.seg \in 1..(ov_k - 1)
         /\ c.start = SumDurations(segments, c.seg - 1)
         /\ c.duration = segments[c.seg].duration_seconds
    /\ \A j \in 1..(Len(text_clips) - 1) :
         /\ text_clips[j].seg <= text_clips[j + 1].seg
         /\ text_clips[j].start <= text_clips[j + 1].start
    /\ \A k \in 1..(ov_k - 1) :
         (segments[k].text = <<>>) => (\A j \in 1..Len(text_clips) : text_clips[j].seg # k)

\* C9 witness: a first segment without caption and of positive duration, then
\* a captioned segment whose two lines both start where the first segment ends
C9_Witness ==
    /\ pc = "o_returned"
    /\ Len(segments) = 2
    /\ segments[1].text = <<>>
    /\ segments[1].duration_seconds > 0
    /\ Len(text_clips) = 2
    /\ \A j \in 1..2 :
         /\ text_clips[j].seg = 2
         /\ text_clips[j].start = segments[1].duration_seconds
         /\ text_clips[j].duration = segments[2].duration_seconds

(***************************************************************************)
(* scout.parse_script.  The file is a sequence of lines and a line a       *)
(* sequence of tokens: label words, ":", " ", the delimiter "---", quotes, *)
(* digits and words.  Joining the lines with "\n" gives the text the code  *)
(* reads, on which split, strip, splitlines, startswith and the regular    *)
(* expressions are computed token by token.                                *)
(***************************************************************************)
MaxLines == 4

\* scout.py line 43 and line 75: the default duration
DefaultDuration == 5

Whitespace == {" ", "\n"}
Quotes == {"\"", "'"}
Digits == {"0", "1", "2", "3", "4", "5", "6", "7", "8", "9"}
Labels == {"SEGMENT", "TEXT", "LYRICS", "DURATION"}

DigitValue(tok) ==
    CASE tok = "0" -> 0 [] tok = "1" -> 1 [] tok = "2" -> 2 [] tok = "3" -> 3
      [] tok = "4" -> 4 [] tok = "5" -> 5 [] tok = "6" -> 6 [] tok = "7" -> 7
      [] tok = "8" -> 8 [] tok = "9" -> 9

\* str.upper() of a token
Upper(tok) == IF tok = "segment" THEN "SEGMENT" ELSE tok

\* str.lstrip / str.rstrip / str.strip over a set of characters
RECURSIVE LStrip(_, _)
LStrip(s, chars) ==
    IF s # <<>> /\ Head(s) \in chars THEN LStrip(Tail(s), chars) ELSE s

RECURSIVE RStrip(_, _)
RStrip(s, chars) ==
    IF s # <<>> /\ s[Len(s)] \in chars THEN RStrip(SubSeq(s, 1, Len(s) - 1), chars) ELSE s

StripChars(s, chars) == RStrip(LStrip(s, chars), chars)

Strip(s) == StripChars(s, Whitespace)

\* "\n".join(lines): the text of the file
RECURSIVE JoinLines(_)
JoinLines(lines) ==
    IF lines = <<>> THEN <<>>
    ELSE IF Len(lines) = 1 THEN lines[1]
    ELSE lines[1] \o <<"\n">> \o JoinLines(Tail(lines))

\* str.split(sep) for a one-token separator
RECURSIVE SplitAcc(_, _, _)
SplitAcc(s, sep, current) ==
    IF s = <<>> THEN <<current>>
    ELSE IF Head(s) = sep THEN <<current>> \o SplitAcc(Tail(s), sep, <<>>)
    ELSE SplitAcc(Tail(s), sep, Append(current, Head(s)))

SplitOn(s, sep) == SplitAcc(s, sep, <<>>)

\* scout.py line 49 (51, 62, 72): stripped.upper().startswith("<LABEL>:")
StartsWithLabel(stripped, label) ==
    /\ Len(stripped) >= 2
    /\ Upper(stripped[1]) = label
    /\ stripped[2] = ":"

\* scout.py line 50: stripped.split(":", 1)[1]
RECURSIVE AfterColon(_)
AfterColon(s) ==
    IF s = <<>> THEN <<>>
    ELSE IF Head(s) = ":" THEN Tail(s)
    ELSE AfterColon(Tail(s))

\* scout.py lines 55-57: re.match(r"^\s*(SEGMENT|TEXT|LYRICS|DURATION)\s*:", line, re.I)
MatchesLabelRegex(line) ==
    LET rest == LStrip(line, Whitespace) IN
    /\ rest # <<>>
    /\ Upper(rest[1]) \in Labels
    /\ LET after == LStrip(Tail(rest), Whitespace) IN
       after # <<>> /\ after[1] = ":"

\* scout.py lines 74-75: re.search(r"\d+", raw), int(match.group()) or the default
RECURSIVE ReadDigits(_, _)
ReadDigits(s, acc) ==
    IF s # <<>> /\ Head(s) \in Digits
      THEN ReadDigits(Tail(s), 10 * acc + DigitValue(Head(s)))
      ELSE acc

RECURSIVE FirstInteger(_)
FirstInteger(raw) ==
    IF raw = <<>> THEN DefaultDuration
    ELSE IF Head(raw) \in Digits THEN ReadDigits(raw, 0)
    ELSE FirstInteger(Tail(raw))

\* scout.py lines 53-60: the lines appended to the caption, and where the loop resumes
RECURSIVE ContinueCaption(_, _, _)
ContinueCaption(lines, j, acc) ==
    IF j <= Len(lines) /\ ~MatchesLabelRegex(lines[j])
      THEN ContinueCaption(lines, j + 1, acc \o <<" ">> \o Strip(lines[j]))
      ELSE [text |-> Strip(acc), next |-> j]

\* scout.py lines 46-76: the loop over the lines of a block
RECURSIVE ParseLines(_, _, _, _, _)
ParseLines(lines, n, query, overlay_text, duration) ==
    IF n > Len(lines)
      THEN [query |-> query, duration_seconds |-> duration, text |-> overlay_text]
      ELSE LET stripped == Strip(lines[n]) IN
           IF StartsWithLabel(stripped, "SEGMENT")
             THEN ParseLines(lines, n + 1, Strip(AfterColon(stripped)), overlay_text, duration)
           ELSE IF StartsWithLabel(stripped, "TEXT") \/ StartsWithLabel(stripped, "LYRICS")
             THEN LET c == ContinueCaption(lines, n + 1,
                                           StripChars(Strip(AfterColon(stripped)), Quotes))
                  IN  ParseLines(lines, c.next, query, c.text, duration)
           ELSE IF StartsWithLabel(stripped, "DURATION")
             THEN ParseLines(lines, n + 1, query, overlay_text,
                             FirstInteger(Strip(AfterColon(stripped))))
           ELSE ParseLines(lines, n + 1, query, overlay_text, duration)

\* scout.py line 77: if query
KeepBlock_Always(query) == TRUE

KeepBlock(query) == query # <<>>

\* scout.py lines 37-78: the segments of the blocks, in order
RECURSIVE ParseBlocks(_)
ParseBlocks(blocks) ==
    IF blocks = <<>> THEN <<>>
    ELSE LET block == Strip(Head(blocks)) IN
         IF block = <<>> THEN ParseBlocks(Tail(blocks))
         ELSE LET seg == ParseLines(SplitOn(block, "\n"), 1, <<>>, <<>>, DefaultDuration) IN
              (IF KeepBlock(seg.query) THEN <<seg>> ELSE <<>>) \o ParseBlocks(Tail(blocks))

\* scout.py lines 28-80
parse_script(file) == ParseBlocks(SplitOn(Strip(JoinLines(file)), "---"))

\* the lines scripts are made of
LinePalette ==
    { <<"SEGMENT", ":", " ", "w4">>,
      <<"segment", ":", "w12">>,
      <<"SEGMENT", ":">>,
      <<"TEXT", ":", " ", "w4">>,
      <<"LYRICS", ":", " ", "\"", "w12", "\"">>,
      <<"DURATION", ":", " ", "5">>,
      <<"DURATION", ":", " ", "2", " ", "w4">>,
      <<"---">>,
      <<"w4">>,
      <<>> }

\* three blocks: two with SEGMENT and DURATION: 5, one without SEGMENT
ScenarioScript ==
    << <<"SEGMENT", ":", " ", "w4">>, <<"DURATION", ":", " ", "5">>, <<"---">>,
       <<"SEGMENT", ":", " ", "w12">>, <<"DURATION", ":", " ", "5">>, <<"---">>,
       <<"TEXT", ":", " ", "w4">> >>

Scripts == SeqsUpTo(LinePalette, MaxLines) \cup {ScenarioScript}

\* scout.py lines 28-80: the call never raises
ParseScript ==
    /\ pc = "parse_call"
    /\ segments' = parse_script(script)
    /\ pc' = "p_returned"
    /\ UNCHANGED <<extVars, mode, trace, runVars, iterVars, safetyVars, script,
                   clip_durations, single_clip, target_duration, draft, ov_k, t, text_clips>>

InitParse ==
    /\ pc = "parse_call"
    /\ mode = "parse"
    /\ trace = <<>>
    /\ IdleExt
    /\ IdleRun
    /\ IdleIterate
    /\ IdleSafety
    /\ script \in Scripts
    /\ segments = <<>>
    /\ clip_durations = <<>>
    /\ single_clip = FALSE
    /\ target_duration = <<>>
    /\ draft = <<>>
    /\ ov_k = 1
    /\ t = 0
    /\ text_clips = <<>>

NextParse == ParseScript

SpecParse == InitParse /\ [][NextParse]_vars

(***************************************************************************)
(* Claims about parse_script (checked under SpecParse).                     *)
(***************************************************************************)
\* a line consisting solely of the delimiter token
IsDelimiterLine(line) == line = <<"---">>

\* the blocks of a document: the runs of lines between delimiter lines
RECURSIVE DocumentBlocks(_, _)
DocumentBlocks(lines, current) ==
    IF lines = <<>> THEN <<current>>
    ELSE IF IsDelimiterLine(Head(lines))
      THEN <<current>> \o DocumentBlocks(Tail(lines), <<>>)
      ELSE DocumentBlocks(Tail(lines), Append(current, Head(lines)))

\* a line written "SEGMENT:" (any case), and the value it gives the field
IsSegmentField(line) ==
    LET l == Strip(line) IN Len(l) >= 2 /\ l[1] \in {"SEGMENT", "segment"} /\ l[2] = ":"

SegmentFieldValue(line) == Strip(SubSeq(Strip(line), 3, Len(Strip(line))))

SegmentFields(block) == SelectSeq(block, IsSegmentField)

\* the visual queries of the blocks that hold a non-empty SEGMENT field, in order
RECURSIVE ExpectedQueries(_)
ExpectedQueries(blocks) ==
    IF blocks = <<>> THEN <<>>
    ELSE LET fields == SegmentFields(Head(blocks)) IN
         (IF fields # <<>> /\ SegmentFieldValue(fields[1]) # <<>>
            THEN <<SegmentFieldValue(fields[1])>> ELSE <<>>)
         \o ExpectedQueries(Tail(blocks))

\* a document of well-formed blocks: the delimiter token only on lines of its
\* own, labels written "LABEL:", and at most one SEGMENT field in a block
WellFormedDocument(file) ==
    /\ \A n \in 1..Len(file) :
         /\ IsDelimiterLine(file[n]) \/ \A m \in 1..Len(file[n]) : file[n][m] # "---"
         /\ LET l == Strip(file[n]) IN
            (l # <<>> /\ Upper(l[1]) \in Labels) => (Len(l) >= 2 /\ l[2] = ":")
    /\ LET blocks == DocumentBlocks(file, <<>>) IN
       \A b \in 1..Len(blocks) : Len(SegmentFields(blocks[b])) <= 1

\* C10: parse_script returns, in document order, exactly one Segment per block
\* that contains a non-empty SEGMENT field (for a document of well-formed
\* blocks); blocks without one are dropped without raising.  The script of 3
\* blocks, two with SEGMENT and DURATION: 5 and one with no SEGMENT line,
\* parses to exactly 2 segments, both of duration 5.
C10_OneSegmentPerBlock ==
    /\ pc \in {"parse_call", "p_returned"}
    /\ (pc = "p_returned" /\ WellFormedDocument(script)) =>
          LET expected == ExpectedQueries(DocumentBlocks(script, <<>>)) IN
          /\ Len(segments) = Len(expected)
          /\ \A k \in 1..Len(segments) : segments[k].query = expected[k]
    /\ (pc = "p_returned" /\ script = ScenarioScript) =>
          /\ Len(segments) = 2
          /\ segments[1].duration_seconds = 5
          /\ segments[2].duration_seconds = 5

\* C10 witness: the scenario script, parsed to its two segments
C10_Witness ==
    /\ pc = "p_returned"
    /\ script = ScenarioScript
    /\ WellFormedDocument(script)
    /\ Len(DocumentBlocks(script, <<>>)) = 3
    /\ Len(segments) = 2
    /\ segments[1].query = <<"w4">>
    /\ segments[2].query = <<"w12">>

(***************************************************************************)
(* parse_script on scripts whose lines exercise the DURATION field, the    *)
(* delimiter inside a line and the continuation of a caption.              *)
(***************************************************************************)
FieldLines ==
    { <<"SEGMENT", ":", " ", "w4">>,
      <<"TEXT", ":", " ", "w4">>,
      <<"LYRICS", ":", " ", "w4">>,
      <<"w12">>,
      <<>>,
      <<"DURATION", ":", " ", "0">>,
      <<"DURATION", ":", " ", "-", "5">>,
      <<"DURATION", ":", " ", "2", ".", "5">>,
      <<"DURATION", ":", " ", "w4">>,
      <<"TEXT", ":", " ", "w4", " ", "---", " ", "w4">>,
      <<"---">> }

FieldScripts == SeqsUpTo(FieldLines, MaxLines)

InitParseFields ==
    /\ pc = "parse_call"
    /\ mode = "parse"
    /\ trace = <<>>
    /\ IdleExt
    /\ IdleRun
    /\ IdleIterate
    /\ IdleSafety
    /\ script \in FieldScripts
    /\ segments = <<>>
    /\ clip_durations = <<>>
    /\ single_clip = FALSE
    /\ target_duration = <<>>
    /\ draft = <<>>
    /\ ov_k = 1
    /\ t = 0
    /\ text_clips = <<>>

SpecParseFields == InitParseFields /\ [][NextParse]_vars

(***************************************************************************)
(* Claims about the fields of parse_script (checked under SpecParseFields). *)
(***************************************************************************)
\* C11: every Segment produced by parse_script has a positive integer
\* duration_seconds (>= 1), whatever the DURATION field contains.
C11_PositiveDuration ==
    pc = "p_returned" =>
        \A k \in 1..Len(segments) : segments[k].duration_seconds >= 1

\* the text of each document block: its lines joined with "\n"
RECURSIVE BlockTexts(_)
BlockTexts(blocks) ==
    IF blocks = <<>> THEN <<>>
    ELSE <<JoinLines(Head(blocks))>> \o BlockTexts(Tail(blocks))

\* C12: parse_script splits the script into blocks only at lines that consist
\* solely of the delimiter token; the result is the one obtained by parsing
\* the runs of lines between delimiter lines, so an occurrence of the token
\* inside a line does not start a new block.
C12_BlocksAtDelimiterLines ==
    pc = "p_returned" =>
        segments = ParseBlocks(BlockTexts(DocumentBlocks(script, <<>>)))

\* a line that starts a field: a label word followed by ":"
IsFieldLine(line) ==
    LET l == Strip(line) IN Len(l) >= 2 /\ Upper(l[1]) \in Labels /\ l[2] = ":"

IsCaptionField(line) ==
    LET l == Strip(line) IN Len(l) >= 2 /\ l[1] \in {"TEXT", "LYRICS"} /\ l[2] = ":"

\* the non-empty lines that follow line n, up to the next field or the end
RECURSIVE FollowingLines(_, _)
FollowingLines(lines, n) ==
    IF n > Len(lines) \/ IsFieldLine(lines[n]) THEN <<>>
    ELSE (IF Strip(lines[n]) = <<>> THEN <<>> ELSE <<Strip(lines[n])>>)
         \o FollowingLines(lines, n + 1)

\* the parts joined by single spaces
RECURSIVE JoinBySpace(_)
JoinBySpace(parts) ==
    IF parts = <<>> THEN <<>>
    ELSE IF Len(parts) = 1 THEN parts[1]
    ELSE parts[1] \o <<" ">> \o JoinBySpace(Tail(parts))

\* the caption claimed for the caption field on line n
ClaimedCaption(lines, n) ==
    LET value == StripChars(Strip(SubSeq(Strip(lines[n]), 3, Len(Strip(lines[n])))), Quotes)
    IN  JoinBySpace((IF value = <<>> THEN <<>> ELSE <<value>>) \o FollowingLines(lines, n + 1))

\* a one-block script with one SEGMENT field and one caption field
OneCaptionBlock(file) ==
    /\ \A n \in 1..Len(file) : \A m \in 1..Len(file[n]) : file[n][m] # "---"
    /\ Len(SegmentFields(file)) = 1
    /\ Len(SelectSeq(file, IsCaptionField)) = 1

\* C13: the parsed caption of a TEXT/LYRICS field equals the label's own value
\* followed by every following non-empty line up to the next label or the end
\* of the block, joined by single spaces; blank lines contribute nothing.
C13_CaptionJoinedBySingleSpaces ==
    (pc = "p_returned" /\ OneCaptionBlock(script)) =>
        /\ Len(segments) = 1
        /\ \A n \in 1..Len(script) :
             IsCaptionField(script[n]) => segments[1].text = ClaimedCaption(script, n)

(***************************************************************************)
(* polish.polish: the prerequisite checks, the overlay, the audio layers   *)
(* and the write of the final artifact.  Gains are in percent.             *)
(***************************************************************************)
MaxVideoDuration == 3
MaxAudioDuration == 3

\* polish.py line 205: music_volume = 0.15
DefaultMusicVolume == 15

\* polish.py lines 235 and 246: MultiplyVolume(1.0)
UnitVolume == 100

\* a path argument: None, a path to no file, or a track of some native duration
AudioPaths ==
    {<<>>, <<[exists |-> FALSE, duration |-> 0]>>}
      \cup {<<[exists |-> TRUE, duration |-> d]>> : d \in 1..MaxAudioDuration}

\* generate_tts_audio returns None (no text to speak) or a track <<duration>>
TtsOutcomes == {<<>>} \cup {<<d>> : d \in 1..MaxAudioDuration}

\* polish.py lines 191-194: loop the music when it is shorter than the video
MusicCopies_Single(native, duration) == 1

MusicCopies(native, duration) ==
    IF native < duration THEN (duration \div native) + 1 ELSE 1

\* polish.py lines 188-196
PrepareMusic(native, duration, volume) ==
    LET n == MusicCopies(native, duration) IN
    [ source   |-> "music",
      native   |-> native,
      copies   |-> n,
      steps    |-> (IF n > 1 THEN <<"repeat">> ELSE <<>>) \o <<"trim", "gain">>,
      duration |-> Min(duration, n * native),
      gain     |-> volume ]

\* polish.py lines 232-235 and 243-246: trimmed when longer, never repeated
PrimaryTrack(source, native, duration) ==
    [ source   |-> source,
      native   |-> native,
      copies   |-> 1,
      steps    |-> (IF native > duration THEN <<"trim">> ELSE <<>>) \o <<"gain">>,
      duration |-> IF native > duration THEN duration ELSE native,
      gain     |-> UnitVolume ]

\* polish.py lines 231-238
BedLayers(music_audio_, music_, duration) ==
    IF music_audio_ # <<>> THEN <<PrimaryTrack("music_audio", music_audio_[1].duration, duration)>>
    ELSE IF music_ # <<>> THEN <<PrepareMusic(music_[1].duration, duration, DefaultMusicVolume)>>
    ELSE <<>>

\* polish.py lines 248-250: CompositeAudioClip(audio_clips).with_duration(dur)
FinalAudio(layers, duration) ==
    IF layers # <<>> THEN <<[duration |-> duration]>> ELSE <<>>

\* polish.py lines 214-219: the draft and every audio file named must exist
PrerequisitesMet_AudioOnly(draft_exists_, music_, music_audio_) ==
    /\ (music_ # <<>> => music_[1].exists)
    /\ (music_audio_ # <<>> => music_audio_[1].exists)

PrerequisitesMet(draft_exists_, music_, music_audio_) ==
    /\ draft_exists_
    /\ (music_ # <<>> => music_[1].exists)
    /\ (music_audio_ # <<>> => music_audio_[1].exists)

\* polish.py lines 213-219
PolishCheck ==
    /\ pc = "polish_call"
    /\ IF PrerequisitesMet(draft_exists, music, music_audio)
         THEN pc' = "p_overlay"
         ELSE pc' = "raised"
    /\ UNCHANGED <<extVars, mode, trace, runVars, iterVars, safetyVars, mediaVars>>

\* polish.py lines 221-226: parse_script, VideoFileClip, add_text_overlay
PolishOverlay ==
    /\ pc = "p_overlay"
    /\ trace' = Append(trace, "overlay")
    /\ pc' = "p_audio"
    /\ UNCHANGED <<extVars, mode, runVars, iterVars, safetyVars, mediaVars>>

\* polish.py lines 228-250
PolishAudio ==
    /\ pc = "p_audio"
    /\ LET bed == BedLayers(music_audio, music, video_duration) IN
       IF voiceover /\ music_audio = <<>>
         THEN \E raises \in BOOLEAN, tts \in TtsOutcomes :
                /\ trace' = Append(trace, "tts")
                /\ IF raises
                     THEN /\ pc' = "raised"
                          /\ UNCHANGED <<audio_clips, final_audio>>
                     ELSE /\ pc' = "p_write"
                          /\ audio_clips' =
                               (IF tts = <<>> THEN bed
                                ELSE bed \o <<PrimaryTrack("voiceover", tts[1], video_duration)>>)
                          /\ final_audio' = FinalAudio(audio_clips', video_duration)
         ELSE /\ trace' = trace
              /\ pc' = "p_write"
              /\ audio_clips' = bed
              /\ final_audio' = FinalAudio(bed, video_duration)
    /\ UNCHANGED <<video_duration, music, music_audio, voiceover, final, otherExt,
                   mode, runVars, iterVars, safetyVars, mediaVars>>

\* polish.py lines 252-258
PolishWrite ==
    /\ pc = "p_write"
    /\ final' = Written(final)
    /\ trace' = Append(trace, "write")
    /\ pc' = "polish_returned"
    /\ UNCHANGED <<extRest, mode, runVars, iterVars, safetyVars, mediaVars>>

\* a call of polish, or a call of iterate, on a draft that may be missing
InitPolish ==
    /\ mode \in {"polish", "iterate"}
    /\ trace = <<>>
    /\ IdleOther
    /\ IdleRun
    /\ IdleSafety
    /\ IdleMedia
    /\ draft_exists \in BOOLEAN
    /\ i = 0
    /\ rating = <<>>
    /\ reports = <<>>
    /\ ret = <<>>
    /\ audio_clips = <<>>
    /\ final_audio = <<>>
    /\ final \in {<<>>, <<1>>}
    /\ IF mode = "polish"
         THEN /\ pc = "polish_call"
              /\ max_iterations = 0
              /\ min_score = DefaultMinScore
              /\ video_duration \in (IF draft_exists THEN 1..MaxVideoDuration ELSE {0})
              /\ music \in AudioPaths
              /\ music_audio \in AudioPaths
              /\ voiceover \in BOOLEAN
         ELSE /\ pc = "iterate"
              /\ max_iterations \in 0..MaxIterations
              /\ min_score \in MinScoreValues
              /\ video_duration = 0
              /\ music = <<>>
              /\ music_audio = <<>>
              /\ voiceover = FALSE

NextPolish ==
    \/ PolishCheck
    \/ PolishOverlay
    \/ PolishAudio
    \/ PolishWrite
    \/ IterateEnter
    \/ IterateLoop
    \/ IteratePolish
    \/ IterateRate

SpecPolish == InitPolish /\ [][NextPolish]_vars

(***************************************************************************)
(* Claims about polish (checked under SpecPolish).                         *)
(***************************************************************************)
\* the audio layers have been built
AudioBuilt == mode = "polish" /\ pc \in {"p_write", "polish_returned"}

\* the gain is the last step of a layer, after any trimming
GainAfterTrim(layer) ==
    /\ layer.steps # <<>>
    /\ layer.steps[Len(layer.steps)] = "gain"
    /\ Count(layer.steps, "gain") = 1

\* C14 (as claimed): every audio layer supplied to polish is reconciled to the
\* video's duration, repeated then trimmed when shorter and trimmed when
\* longer, with its gain applied after trimming, and the mixed track's
\* duration equals the video's duration.
C14_EveryLayerReconciled ==
    AudioBuilt =>
        /\ \A k \in 1..Len(audio_clips) :
             /\ audio_clips[k].duration = video_duration
             /\ GainAfterTrim(audio_clips[k])
        /\ (audio_clips # <<>> => final_audio = <<[duration |-> video_duration]>>)

\* C14 (amended): background music is reconciled to the video's duration,
\* repeated as whole copies then trimmed when shorter and trimmed when longer,
\* with its gain applied after trimming; the generated primary track and the
\* voiceover are never repeated, only trimmed when longer, so they keep their
\* own duration when shorter; with at least one layer the mixed track's
\* duration equals the video's duration, and without layers no audio is set.
C14_MusicReconciledOthersTrimmed ==
    AudioBuilt =>
        /\ \A k \in 1..Len(audio_clips) :
             LET layer == audio_clips[k] IN
             /\ GainAfterTrim(layer)
             /\ IF layer.source = "music"
                  THEN /\ layer.duration = video_duration
                       /\ layer.copies * layer.native >= video_duration
                       /\ (layer.copies > 1 <=> layer.native < video_duration)
                       /\ Count(layer.steps, "trim") = 1
                       /\ layer.gain = DefaultMusicVolume
                  ELSE /\ layer.copies = 1
                       /\ layer.duration = Min(layer.native, video_duration)
                       /\ (Count(layer.steps, "trim") = 1 <=> layer.native > video_duration)
                       /\ layer.gain = UnitVolume
        /\ final_audio = (IF audio_clips # <<>> THEN <<[duration |-> video_duration]>> ELSE <<>>)

\* C14 witness: looped background music under a voiceover shorter than the video
C14_Witness ==
    /\ mode = "polish"
    /\ pc = "polish_returned"
    /\ Len(audio_clips) = 2
    /\ audio_clips[1].source = "music"
    /\ audio_clips[1].copies > 1
    /\ audio_clips[1].duration = video_duration
    /\ audio_clips[2].source = "voiceover"
    /\ audio_clips[2].duration < video_duration
    /\ final_audio = <<[duration |-> video_duration]>>

\* C15: polish and iterate fail closed when the draft video does not exist:
\* the call raises before any overlay, audio generation, evaluator call or
\* output write, and no final artifact or rating report is created or changed.
C15_FailClosed ==
    /\ [](~draft_exists =>
            /\ pc \in {"polish_call", "iterate", "raised"}
            /\ trace = <<>>
            /\ reports = <<>>
            /\ audio_clips = <<>>
            /\ final_audio = <<>>
            /\ ret = <<>>)
    /\ [][~draft_exists => (final' = final /\ reports' = reports /\ pc' = "raised")]_vars

\* C15 witness: polish with a voiceover and an earlier final artifact, no draft
C15_Witness ==
    /\ mode = "polish"
    /\ ~draft_exists
    /\ voiceover
    /\ pc = "raised"
    /\ final = <<1>>
    /\ trace = <<>>

(***************************************************************************)
(* Claim about the errors of director (checked under SpecDirector).        *)
(***************************************************************************)
\* C16: in per-segment mode, when fewer clips exist than segments, director
\* raises an error that names the number found, the number needed and the
\* remedial step (run Scout first), before any clip is loaded and without
\* writing a draft.
C16_NotEnoughClips ==
    (pc # "director_call" /\ ~single_clip /\ Len(clip_durations) < Len(segments)) =>
        /\ pc = "raised"
        /\ Len(error) = 1
        /\ error[1].text = "Not enough clips"
        /\ error[1].found = Len(clip_durations)
        /\ error[1].need = Len(segments)
        /\ error[1].remedy = "Run Scout first"
        /\ clips_loaded = 0
        /\ draft = <<>>

\* C16 witness: two segments and one clip
C16_Witness ==
    /\ pc = "raised"
    /\ ~single_clip
    /\ Len(segments) = 2
    /\ Len(clip_durations) = 1
    /\ error = <<NotEnoughClipsError(1, 2)>>

(***************************************************************************)
(* Claims about the pipeline in any environment (checked under             *)
(* SpecPipeline).                                                          *)
(***************************************************************************)
\* the run ended on the error of a credential that is not set
MissingCredential ==
    pc = "raised" /\ error # <<>> /\ error[1].text = "not set in .env"

\* C17: when a credential needed by a stage of the run is missing, the run
\* fails before any external call (script generation, footage search or
\* download, speech or song synthesis, evaluator) has been made.
C17_CredentialsBeforeCalls ==
    MissingCredential => calls = <<>>

\* the requests that fetch footage
FootageCalls == {k \in 1..Len(calls) : calls[k].api \in {"search", "download"}}

\* C18: when the script yields no segments, the pipeline fails before any
\* footage is fetched, and no clip, draft or final artifact is produced: the
\* run does not complete.
C18_NoSegmentsFailsFirst ==
    segments = <<>> =>
        /\ FootageCalls = {}
        /\ ~draft_exists
        /\ final = <<>>
        /\ pc # "done"

(***************************************************************************)
(* Claim about replies of the evaluator that are not a report (checked     *)
(* under SpecEvaluator).                                                   *)
(***************************************************************************)
\* a report of the fixed shape
WellFormedReport(r) == {"overall_score", "pass", "issues"} \subseteq DOMAIN r

\* C19: if the evaluator's reply is not a well-formed report (unparsable
\* JSON, or overall_score, pass or issues missing), the rating call fails:
\* iterate raises, returns no report and runs no further iteration.
C19_MalformedReplyFails ==
    /\ (calls # <<>> /\ calls[Len(calls)].outcome = "unparsable") =>
          (pc = "raised" /\ ret = <<>>)
    /\ \A k \in 1..Len(reports) :
          ~WellFormedReport(reports[k]) =>
              (pc = "raised" /\ k = Len(reports) /\ ret = <<>>)

(***************************************************************************)
(* Claim about repeated requests (checked under SpecPipeline).             *)
(***************************************************************************)
\* two requests for the same thing: same collaborator, segment and pass
SameRequest(a, b) == a.api = b.api /\ a.seg = b.seg /\ a.pass = b.pass

\* a request that failed is the last one, and the run has ended on the error
FailurePropagates ==
    \A k \in 1..Len(calls) :
        calls[k].outcome = "error" => (k = Len(calls) /\ pc = "raised")

\* C20 (as claimed): no external call is ever re-issued: each request is made
\* at most once per segment or artifact it serves, and when one fails the
\* error propagates immediately and no later stage executes.
C20_NoRequestTwice ==
    /\ \A j, k \in 1..Len(calls) : (j # k) => ~SameRequest(calls[j], calls[k])
    /\ FailurePropagates

\* C20 (amended): a request is made twice only by scout in single-clip mode,
\* whose search, when it returns no results, is followed at once by one
\* fallback search; no request that failed is repeated, a failure ends the
\* run, and every other request is made once per segment and polish pass.
C20_OnlyFallbackSearchTwice ==
    /\ \A j, k \in 1..Len(calls) :
         (j < k /\ SameRequest(calls[j], calls[k])) =>
             /\ calls[j].api = "search"
             /\ (single_clip \/ mode = "hamilton")
             /\ k = j + 1
             /\ calls[j].outcome = "empty"
             /\ \A m \in 1..Len(calls) : SameRequest(calls[m], calls[j]) => m \in {j, k}
    /\ FailurePropagates

\* C20 witness: a completed single-clip run whose first search found nothing
C20_Witness ==
    /\ pc = "done"
    /\ single_clip
    /\ Len(calls) >= 3
    /\ calls[1] = Call("search", 1, 0, "empty")
    /\ calls[2] = Call("search", 1, 0, "ok")
    /\ calls[3] = Call("download", 1, 0, "ok")

(***************************************************************************)
(* Claim about the safe field of the safety report (checked under          *)
(* SpecSafety).                                                            *)
(***************************************************************************)
\* C30: in every report returned by safety_check, safe is true if and only
\* if verdict is "approved", so the publish warning of run (printed when safe
\* is false) is shown for every needs_review and rejected verdict.
C30_SafeIffApproved ==
    pc = "s_returned" =>
        (result[1].safe <=> result[1].verdict = "approved")

(***************************************************************************)
(* parse_script on scripts whose lines write the labels with different     *)
(* casing and spacing around the colon.                                    *)
(***************************************************************************)
LabelLines ==
    { <<"TEXT", ":", " ", "w4">>,
      <<"w12">>,
      <<"SEGMENT", ":", " ", "w4">>,
      <<"segment", ":", "w12">>,
      <<" ", "SEGMENT", ":", "w4">>,
      <<"SEGMENT", " ", ":", " ", "w4">>,
      <<"DURATION", ":", " ", "2">>,
      <<"DURATION", " ", ":", " ", "2">> }

LabelScripts == SeqsUpTo(LabelLines, MaxLines)

InitParseLabels ==
    /\ pc = "parse_call"
    /\ mode = "parse"
    /\ trace = <<>>
    /\ IdleExt
    /\ IdleRun
    /\ IdleIterate
    /\ IdleSafety
    /\ script \in LabelScripts
    /\ segments = <<>>
    /\ clip_durations = <<>>
    /\ single_clip = FALSE
    /\ target_duration = <<>>
    /\ draft = <<>>
    /\ ov_k = 1
    /\ t = 0
    /\ text_clips = <<>>

SpecParseLabels == InitParseLabels /\ [][NextParse]_vars

\* a line one of the four handlers of the loop takes as a field
RecognizedByHandlers(line) ==
    \E label \in Labels : StartsWithLabel(Strip(line), label)

\* the lines of the script that follow a caption field and end its continuation
StopsContinuation(file, n) ==
    /\ n \in 2..Len(file)
    /\ MatchesLabelRegex(file[n])
    /\ \E k \in 1..(n - 1) :
         /\ IsCaptionField(file[k])
         /\ \A m \in (k + 1)..(n - 1) : ~MatchesLabelRegex(file[m])

\* C29: in parse_script the lines that end a caption continuation are exactly
\* the lines the handlers recognize as labels: every line that stops the
\* continuation is parsed as the field it starts, for any casing and any
\* spacing around the colon, so its value is never silently discarded.
C29_StopLinesAreFieldLines ==
    pc = "p_returned" =>
        /\ \A n \in 1..Len(script) :
             MatchesLabelRegex(script[n]) <=> RecognizedByHandlers(script[n])
        /\ \A n \in 1..Len(script) :
             (StopsContinuation(script, n)
                /\ Upper(LStrip(script[n], Whitespace)[1]) = "SEGMENT")
             => segments # <<>>

(***************************************************************************)
(* add_text_overlay on one segment whose caption is drawn from words of    *)
(* several lengths, runs of blanks and line breaks.                        *)
(***************************************************************************)
MaxTextLen == 5

WrapTokens == {"w4", "w12", "w30", " ", "\n"}

WrapTexts == SeqsUpTo(WrapTokens, MaxTextLen)

InitWrap ==
    /\ pc = "overlay_loop"
    /\ mode = "overlay"
    /\ trace = <<>>
    /\ IdleExt
    /\ IdleRun
    /\ IdleIterate
    /\ IdleSafety
    /\ script = <<>>
    /\ \E text \in WrapTexts :
         segments = <<[query |-> <<"q">>, duration_seconds |-> 1, text |-> text]>>
    /\ clip_durations = <<>>
    /\ single_clip = FALSE
    /\ target_duration = <<>>
    /\ draft = <<>>
    /\ ov_k = 1
    /\ t = 0
    /\ text_clips = <<>>

SpecWrap == InitWrap /\ [][NextOverlay]_vars

\* the words of the lines shown for the caption, in order
RECURSIVE ShownWords(_)
ShownWords(clips) ==
    IF clips = <<>> THEN <<>>
    ELSE Words(Head(clips).text) \o ShownWords(Tail(clips))

\* len() of a line
RECURSIVE LineLen(_)
LineLen(line) == IF line = <<>> THEN 0 ELSE TokLen(Head(line)) + LineLen(Tail(line))

\* C22: _wrap_text_at_words never splits, drops or reorders a word: the words
\* of the produced lines, in order, are the whitespace-separated words of the
\* input, and every line holding more than one word is at most max_chars long.
C22_WrapKeepsWords ==
    pc = "o_returned" =>
        /\ ShownWords(text_clips) = Words(segments[1].text)
        /\ \A j \in 1..Len(text_clips) :
             /\ text_clips[j].text # <<>>
             /\ Len(Words(text_clips[j].text)) > 1
                  => LineLen(text_clips[j].text) <= max_line_chars

\* C22 witness: a caption with a word longer than a line and two words that
\* do not fit on one line together, wrapped into three lines
C22_Witness ==
    /\ pc = "o_returned"
    /\ Len(Words(segments[1].text)) = 3
    /\ Len(text_clips) = 3
    /\ \E j \in 1..Len(text_clips) : LineLen(text_clips[j].text) > max_line_chars

(***************************************************************************)
(* rate.extract_frames.  Timestamps are in twentieths of a time unit.      *)
(***************************************************************************)
FRAMES_PER_SEGMENT == 3
MAX_FRAMES == 18
SAFETY_MAX_FRAMES == 12

MaxFrameSegments == 19
MaxFrameVideo == 20

Max(a, b) == IF a >= b THEN a ELSE b

\* rate.py lines 47-49: the frames sampled per segment, given the cap
SamplesPerSegment(total_segs, per_segment, cap) ==
    IF total_segs * per_segment > cap THEN Max(1, cap \div total_segs) ELSE per_segment

\* rate.py lines 56-62: the timestamps sampled within a segment
Timestamps(cursor, seg_dur, per_segment) ==
    IF per_segment = 1
      THEN <<20 * cursor + 10 * seg_dur>>
      ELSE LET margin == 2 * seg_dur
               step == (20 * seg_dur - 2 * margin) \div (per_segment - 1)
           IN  [j \in 1..per_segment |-> 20 * cursor + margin + step * (j - 1)]

\* rate.py lines 51-70: the loop over the segments
RECURSIVE ExtractLoop(_, _, _, _, _, _)
ExtractLoop(segs, k, cursor, duration, per_segment, results) ==
    IF k > Len(segs) THEN results
    ELSE LET seg_dur == Min(segs[k].duration_seconds, duration - cursor) IN
         IF seg_dur <= 0 THEN results
         ELSE LET stamps == Timestamps(cursor, seg_dur, per_segment)
                  saved == [j \in 1..Len(stamps) |->
                               [seg |-> k - 1, frame |-> j - 1,
                                ts |-> Min(stamps[j], 20 * duration - 1)]]
              IN  ExtractLoop(segs, k + 1, cursor + segs[k].duration_seconds, duration,
                              per_segment, results \o saved)

\* rate.py lines 27-74
extract_frames(segs, duration, per_segment, cap) ==
    ExtractLoop(segs, 1, 0, duration, SamplesPerSegment(Len(segs), per_segment, cap), <<>>)

ExtractFrames ==
    /\ pc = "extract_call"
    /\ frames' = extract_frames(segments, video_duration, frames_per_segment, max_frames)
    /\ pc' = "e_returned"
    /\ UNCHANGED <<mode, trace, runVars, iterVars, safetyVars, mediaVars, polishVars,
                   error, clips_loaded, written, keys, replies, calls, frames_per_segment, max_frames,
                   clipVars, fsVars>>

\* scripts of n segments of one duration
FrameSegments ==
    { [k \in 1..n |-> [query |-> <<"q">>, duration_seconds |-> d, text |-> <<>>]] :
        n \in 0..MaxFrameSegments, d \in SegDurationValues }

InitFrames ==
    /\ pc = "extract_call"
    /\ mode = "rate"
    /\ trace = <<>>
    /\ IdleRun
    /\ IdleIterate
    /\ IdleSafety
    /\ script = <<>>
    /\ segments \in FrameSegments
    /\ clip_durations = <<>>
    /\ single_clip = FALSE
    /\ target_duration = <<>>
    /\ draft = <<>>
    /\ ov_k = 1
    /\ t = 0
    /\ text_clips = <<>>
    /\ video_duration \in 0..MaxFrameVideo
    /\ music = <<>>
    /\ music_audio = <<>>
    /\ voiceover = FALSE
    /\ audio_clips = <<>>
    /\ final_audio = <<>>
    /\ final = <<>>
    /\ error = <<>>
    /\ clips_loaded = 0
    /\ written = <<>>
    /\ keys = AllKeys
    /\ replies = Reports
    /\ calls = <<>>
    /\ frames_per_segment \in 1..FRAMES_PER_SEGMENT
    /\ max_frames \in {SAFETY_MAX_FRAMES, MAX_FRAMES}
    /\ frames = <<>>
    /\ IdleClips
    /\ IdleFs

NextFrames == ExtractFrames

SpecFrames == InitFrames /\ [][NextFrames]_vars

\* C24: extract_frames never returns more than max_frames frames, for any
\* number of segments and any frames_per_segment (18 for the quality rating,
\* 12 for the safety check).
C24_AtMostMaxFrames ==
    pc = "e_returned" => Len(frames) <= max_frames

(***************************************************************************)
(* The clips directory of one script across runs of scout and director.    *)
(* A file is [index, name, fetch]: the segment index and the name part of  *)
(* segment_<index>_<name>.mp4, and the download that wrote it last.        *)
(***************************************************************************)
MaxFetches == 4
ClipSegments == 2

QueryNames == {"beach", "waves"}

\* the order of str on the name parts
NameRank(name) ==
    CASE name = "beach" -> 1 [] name = "single" -> 2 [] name = "waves" -> 3

\* the scripts of ClipSegments segments, one query name each
ClipScripts ==
    [1..ClipSegments -> [query : {<<q>> : q \in QueryNames}, duration_seconds : {1},
                         text : {<<>>}]]

\* scout.py lines 188-189: the name part of the destination
SafeName(seg) == seg.query[1]

\* scout.py line 118-124: the download overwrites the destination
Download(files, index, name, fetch) ==
    {f \in files : ~(f.index = index /\ f.name = name)}
        \cup {[index |-> index, name |-> name, fetch |-> fetch]}

\* director.py lines 19-31: sorted by (segment index, stem)
SortKeyBefore(f, g) ==
    \/ f.index < g.index
    \/ f.index = g.index /\ NameRank(f.name) < NameRank(g.name)

RECURSIVE SortClips(_)
SortClips(files) ==
    IF files = {} THEN <<>>
    ELSE LET first == CHOOSE f \in files : \A g \in files \ {f} : SortKeyBefore(f, g)
         IN  <<first>> \o SortClips(files \ {first})

get_clips_in_order(files) == SortClips(files)

\* director.py line 91: clip_paths[: len(segments)]
FirstClips(paths, n) == SubSeq(paths, 1, n)

\* the script is edited: the same segments, other queries
EditQueries ==
    /\ pc = "clips_idle"
    /\ \E edited \in ClipScripts :
         /\ edited # segments
         /\ segments' = edited
    /\ UNCHANGED <<pc, mode, trace, runVars, iterVars, safetyVars, script, clip_durations,
                   single_clip, target_duration, draft, ov_k, t, text_clips, extVars>>

\* scout.py lines 154-172: one clip for every segment
ScoutSingleClip ==
    /\ pc = "clips_idle"
    /\ fetches < MaxFetches
    /\ \E ok \in BOOLEAN :
         IF ok
           THEN /\ fetches' = fetches + 1
                /\ clip_files' = Download(clip_files, 0, "single", fetches + 1)
                /\ latest' = [k \in 1..Len(segments) |-> fetches + 1]
           ELSE UNCHANGED <<clip_files, latest, fetches>>
    /\ UNCHANGED <<pc, mode, trace, runVars, iterVars, safetyVars, mediaVars, polishVars,
                   error, clips_loaded, written, keys, replies, calls, frameVars, assembled, fsVars>>

\* scout.py lines 174-191: the clips of the first m segments are fetched
RECURSIVE FetchSegments(_, _, _, _)
FetchSegments(files, segs, k, m) ==
    IF k > m THEN files
    ELSE FetchSegments(Download(files, k - 1, SafeName(segs[k]), fetches + k), segs, k + 1, m)

ScoutPerSegment ==
    /\ pc = "clips_idle"
    /\ \E m \in 0..Len(segments) :
         /\ fetches + m <= MaxFetches
         /\ fetches' = fetches + m
         /\ clip_files' = FetchSegments(clip_files, segments, 1, m)
         /\ latest' = [k \in 1..Len(segments) |-> IF k <= m THEN fetches + k ELSE latest[k]]
    /\ UNCHANGED <<pc, mode, trace, runVars, iterVars, safetyVars, mediaVars, polishVars,
                   error, clips_loaded, written, keys, replies, calls, frameVars, assembled, fsVars>>

\* director.py lines 70-71 and 84-100: the clip each segment is cut from
DirectorPerSegment ==
    /\ pc = "clips_idle"
    /\ LET clip_paths == get_clips_in_order(clip_files) IN
       IF Len(clip_paths) < Len(segments)
         THEN /\ pc' = "raised"
              /\ error' = <<"ValueError">>
              /\ assembled' = assembled
         ELSE /\ pc' = "c_assembled"
              /\ error' = error
              /\ assembled' = FirstClips(clip_paths, Len(segments))
    /\ UNCHANGED <<mode, trace, runVars, iterVars, safetyVars, mediaVars, polishVars,
                   clips_loaded, written, keys, replies, calls, frameVars, clip_files, latest, fetches,
                   fsVars>>

InitClips ==
    /\ pc = "clips_idle"
    /\ mode = "clips"
    /\ trace = <<>>
    /\ IdleRun
    /\ IdleIterate
    /\ IdleSafety
    /\ IdlePolish
    /\ script = <<>>
    /\ segments \in ClipScripts
    /\ clip_durations = <<>>
    /\ single_clip = FALSE
    /\ target_duration = <<>>
    /\ draft = <<>>
    /\ ov_k = 1
    /\ t = 0
    /\ text_clips = <<>>
    /\ error = <<>>
    /\ clips_loaded = 0
    /\ written = <<>>
    /\ keys = AllKeys
    /\ replies = Reports
    /\ calls = <<>>
    /\ IdleFrames
    /\ clip_files = {}
    /\ latest = [k \in 1..ClipSegments |-> 0]
    /\ fetches = 0
    /\ assembled = <<>>
    /\ IdleFs

NextClips ==
    \/ EditQueries
    \/ ScoutSingleClip
    \/ ScoutPerSegment
    \/ DirectorPerSegment

SpecClips == InitClips /\ [][NextClips]_vars

\* C25: after any sequence of Scout runs on the same script (single-clip and
\* per-segment, in any order, with edited queries) followed by Director in
\* per-segment mode, segment i is assembled from the clip most recently
\* fetched for segment i: stale clips of earlier runs never shift or replace
\* the pairing.
C25_LatestClipPerSegment ==
    pc = "c_assembled" =>
        \A k \in 1..Len(segments) :
            latest[k] # 0 => assembled[k].fetch = latest[k]

(***************************************************************************)
(* director in per-segment mode followed by the overlay of polish on the   *)
(* draft it wrote.                                                         *)
(***************************************************************************)
CaptionSegments ==
    SeqsUpTo([query : {<<"q">>}, duration_seconds : SegDurationValues,
              text : {<<>>, <<"w4">>}], MaxSegments)

\* polish.py lines 220-226: the draft is opened and the script parsed again
OverlayBegin ==
    /\ pc = "d_returned"
    /\ video_duration' = draft[1].duration
    /\ ov_k' = 1
    /\ t' = 0
    /\ text_clips' = <<>>
    /\ pc' = "overlay_loop"
    /\ UNCHANGED <<mode, trace, runVars, iterVars, safetyVars, script, segments,
                   clip_durations, single_clip, target_duration, draft, music, music_audio,
                   voiceover, audio_clips, final_audio, final, otherExt>>

InitCaption ==
    /\ pc = "director_call"
    /\ mode = "caption"
    /\ trace = <<>>
    /\ IdleExt
    /\ IdleRun
    /\ IdleIterate
    /\ IdleSafety
    /\ script = <<>>
    /\ segments \in CaptionSegments
    /\ clip_durations \in SeqsUpTo(ClipDurationValues, MaxSegments + 1)
    /\ single_clip = FALSE
    /\ target_duration = <<>>
    /\ draft = <<>>
    /\ ov_k = 1
    /\ t = 0
    /\ text_clips = <<>>

NextCaption ==
    \/ Director
    \/ OverlayBegin
    \/ OverlayStep
    \/ OverlayReturn

SpecCaption == InitCaption /\ [][NextCaption]_vars

\* where the slice of segment k starts in the draft
SliceStart(k) == SumSeq(SubSeq(draft[1].slices, 1, k - 1))

\* polish.py line 134: the composite has the length of the video, so a
\* caption is shown until its own end or the end of the video
ShownEnd(c) == Min(c.start + c.duration, video_duration)

\* C26: the caption of segment i starts where segment i's slice starts in the
\* draft and ends no later than that slice ends, also when a clip is shorter
\* than the segment's nominal duration.
C26_CaptionOnItsSlice ==
    pc = "o_returned" =>
        \A j \in 1..Len(text_clips) :
            LET c == text_clips[j] IN
            /\ c.start = SliceStart(c.seg)
            /\ ShownEnd(c) <= SliceStart(c.seg) + draft[1].slices[c.seg]

(***************************************************************************)
(* run_hamilton from generate_song to the overlay of polish: the song      *)
(* fixes the length of the draft, the script fixes the captions.           *)
(***************************************************************************)
MIN_SECTION_MS == 3000
MAX_SECTION_MS == 120000

\* elevenlabs_client.py lines 60-61: the length of the section of a segment
SectionMs(seg) == Max(MIN_SECTION_MS, Min(MAX_SECTION_MS, seg.duration_seconds * 1000))

\* elevenlabs_client.py lines 103-106: total_duration of the composition plan
RECURSIVE PlanMs(_)
PlanMs(segs) == IF segs = <<>> THEN 0 ELSE SectionMs(Head(segs)) + PlanMs(Tail(segs))

SongDuration(segs) == PlanMs(segs) \div 1000

\* segment durations below, at and above the limits of a section
SongSegDurations == {2, 3, 4, 121}

SongSegments ==
    SeqsUpTo([query : {<<"q">>}, duration_seconds : SongSegDurations, text : {<<"w4">>}],
             MaxSegments) \ {<<>>}

\* run.py lines 69-77 and 83-88: generate_song returns the planned length,
\* which becomes the target duration of the draft; the saved audio has the
\* length the service gave it
GenerateSong ==
    /\ pc = "song_call"
    /\ \E ok \in BOOLEAN :
         IF ok
           THEN /\ pc' = "director_call"
                /\ target_duration' = <<SongDuration(segments)>>
                /\ \E d \in {SongDuration(segments) - 1, SongDuration(segments)} :
                     music_audio' = <<[exists |-> TRUE, duration |-> d]>>
                /\ calls' = Append(calls, Call("song", 0, 0, "ok"))
           ELSE /\ pc' = "raised"
                /\ calls' = Append(calls, Call("song", 0, 0, "error"))
                /\ UNCHANGED <<target_duration, music_audio>>
    /\ UNCHANGED <<mode, trace, runVars, iterVars, safetyVars, script, segments,
                   clip_durations, single_clip, draft, ov_k, t, text_clips,
                   video_duration, music, voiceover, audio_clips, final_audio, final,
                   error, clips_loaded, written, envVars>>

InitSong ==
    /\ pc = "song_call"
    /\ mode = "hamilton"
    /\ trace = <<>>
    /\ IdleExt
    /\ IdleRun
    /\ IdleIterate
    /\ IdleSafety
    /\ script = <<>>
    /\ segments \in SongSegments
    /\ clip_durations \in SeqsUpTo(ClipDurationValues, 1)
    /\ single_clip = TRUE
    /\ target_duration = <<>>
    /\ draft = <<>>
    /\ ov_k = 1
    /\ t = 0
    /\ text_clips = <<>>

NextSong ==
    \/ GenerateSong
    \/ Director
    \/ OverlayBegin
    \/ OverlayStep
    \/ OverlayReturn

SpecSong == InitSong /\ [][NextSong]_vars

\* C23: in the Hamilton pipeline the captions are timed against the measured
\* duration of the video: the durations of the segments used for captioning
\* sum to the duration of the draft (the length of the song), so no caption
\* extends past the end of the video and the captions do not end before it.
C23_CaptionsFillTheVideo ==
    pc = "o_returned" =>
        /\ SumDurations(segments, Len(segments)) = video_duration
        /\ \A j \in 1..Len(text_clips) :
             text_clips[j].start + text_clips[j].duration <= video_duration
        /\ t = video_duration

(***************************************************************************)
(* Pipeline runs at the level of the paths they touch: polish with         *)
(* voiceover (generate_tts_audio), safety_check and rate_video.  Run r     *)
(* works on a script of its own base name, so <stem>_final.mp4 and the     *)
(* reports are per run; output/_tts_temp, its seg_<i>.mp3 files and        *)
(* output/_tts_voiceover.mp3 have one path for every run.                  *)
(***************************************************************************)
MaxTtsSegments == 2

Runs == {1, 2}

Path(name, id) == [name |-> name, id |-> id]

\* polish.py line 146: output_path.parent / "_tts_temp"
TtsTemp == Path("_tts_temp", 0)

\* polish.py line 154: temp_dir / f"seg_{i}.mp3"
SegPath(k) == Path("seg", k)

\* polish.py line 241: OUTPUT_DIR / "_tts_voiceover.mp3"
TtsVoiceover == Path("_tts_voiceover", 0)

\* polish.py line 252: OUTPUT_DIR / f"{script_path.stem}_final.mp4"
FinalPath(r) == Path("final", r)

\* rate.py line 96, safety_rate.py line 116: a fresh directory of tempfile
RateFrames(r) == Path("rate_frames", r)
SafetyFrames(r) == Path("safety_frames", r)

\* rate.py line 204, safety_rate.py line 261: the reports
RatingPath(r) == Path("rating", r)
SafetyPath(r) == Path("safety", r)

\* temp_dir.glob("seg_*.mp3")
SegFiles(files) == {f \in files : f.name = "seg"}

Log(r, paths, kind) == {[run |-> r, path |-> f, kind |-> kind] : f \in paths}

\* tempfile.TemporaryDirectory.__exit__: the directory is removed however
\* the block is left
Cleanup_OnSuccess(files, dir, raised) == IF raised THEN files ELSE files \ {dir}

Cleanup(files, dir, raised) == files \ {dir}

\* the state of the other calls, which a run leaves alone
restVars == <<pc, mode, trace, runVars, iterVars, safetyVars, mediaVars, polishVars,
              error, clips_loaded, written, keys, replies, calls, frameVars, clipVars>>

At(r, label) == procs[r].pc = label

Goto(r, label) == [procs EXCEPT ![r].pc = label]

\* polish.py lines 212-226 and 240: the overlay, then the voiceover when asked for
PolishEnter(r) ==
    /\ At(r, "polish_call")
    /\ procs' = Goto(r, IF procs[r].voiceover THEN "tts_call" ELSE "tts_none")
    /\ UNCHANGED <<fs, made, access, restVars>>

\* polish.py lines 141-147: the credential, then the scratch directory
TtsEnter(r) ==
    /\ At(r, "tts_call")
    /\ IF "OPENAI_API_KEY" \notin keys
         THEN /\ procs' = Goto(r, "raised")
              /\ UNCHANGED <<fs, made>>
         ELSE /\ procs' = [procs EXCEPT ![r].pc = "tts_loop", ![r].k = 0]
              /\ fs' = fs \cup {TtsTemp}
              /\ made' = [made EXCEPT ![r] = @ \cup {TtsTemp}]
    /\ UNCHANGED <<access, restVars>>

\* polish.py lines 151-161: one pass of the loop; the request or the write
\* of seg_<i>.mp3 may raise
TtsSegment(r) ==
    /\ At(r, "tts_loop")
    /\ procs[r].k < procs[r].n
    /\ \E ok \in BOOLEAN :
         IF ok /\ TtsTemp \in fs
           THEN /\ fs' = fs \cup {SegPath(procs[r].k)}
                /\ access' = access \cup Log(r, {SegPath(procs[r].k)}, "write")
                /\ procs' = [procs EXCEPT ![r].k = @ + 1]
           ELSE /\ procs' = [procs EXCEPT ![r].pc = "tts_unlink", ![r].pending = "raise"]
                /\ UNCHANGED <<fs, access>>
    /\ UNCHANGED <<made, restVars>>

\* polish.py lines 163-179: no text at all returns None; else the segment
\* files are read back, joined and written to the voiceover path
TtsConcat(r) ==
    /\ At(r, "tts_loop")
    /\ procs[r].k = procs[r].n
    /\ LET mine == {SegPath(j) : j \in 0..(procs[r].n - 1)} IN
       IF procs[r].n = 0
         THEN /\ procs' = [procs EXCEPT ![r].pc = "tts_unlink", ![r].pending = "none"]
              /\ UNCHANGED <<fs, access>>
         ELSE IF ~(mine \subseteq fs)
           THEN /\ procs' = [procs EXCEPT ![r].pc = "tts_unlink", ![r].pending = "raise"]
                /\ access' = access \cup Log(r, mine \cap fs, "read")
                /\ fs' = fs
           ELSE \E ok \in BOOLEAN :
                  /\ access' = access \cup Log(r, mine, "read")
                                      \cup (IF ok THEN Log(r, {TtsVoiceover}, "write") ELSE {})
                  /\ fs' = IF ok THEN fs \cup {TtsVoiceover} ELSE fs
                  /\ procs' = [procs EXCEPT ![r].pc = "tts_unlink",
                                            ![r].pending = IF ok THEN "return" ELSE "raise"]
    /\ UNCHANGED <<made, restVars>>

\* polish.py lines 181-183: finally, every seg_*.mp3 of the directory is unlinked
TtsUnlink(r) ==
    /\ At(r, "tts_unlink")
    /\ fs' = fs \ SegFiles(fs)
    /\ access' = access \cup Log(r, SegFiles(fs), "delete")
    /\ procs' = Goto(r, "tts_rmdir")
    /\ UNCHANGED <<made, restVars>>

\* polish.py lines 184-185: rmdir raises on a directory that is not empty
TtsRmdir(r) ==
    /\ At(r, "tts_rmdir")
    /\ IF TtsTemp \in fs /\ SegFiles(fs) # {}
         THEN /\ procs' = Goto(r, "raised")
              /\ fs' = fs
         ELSE /\ fs' = fs \ {TtsTemp}
              /\ procs' = Goto(r, CASE procs[r].pending = "return" -> "tts_returned"
                                    [] procs[r].pending = "none" -> "tts_none"
                                    [] OTHER -> "raised")
    /\ UNCHANGED <<made, access, restVars>>

\* polish.py lines 242-258: the voiceover is read back when one was made,
\* and the final video is written
PolishFinal(r) ==
    /\ At(r, "tts_returned") \/ At(r, "tts_none")
    /\ IF At(r, "tts_returned") /\ TtsVoiceover \notin fs
         THEN /\ procs' = Goto(r, "raised")
              /\ UNCHANGED <<fs, access>>
         ELSE \E ok \in BOOLEAN :
                /\ access' = access
                     \cup (IF At(r, "tts_returned") THEN Log(r, {TtsVoiceover}, "read") ELSE {})
                     \cup (IF ok THEN Log(r, {FinalPath(r)}, "write") ELSE {})
                /\ fs' = IF ok THEN fs \cup {FinalPath(r)} ELSE fs
                /\ procs' = Goto(r, IF ok THEN "safety_call" ELSE "raised")
    /\ UNCHANGED <<made, restVars>>

\* safety_rate.py lines 101-116: the credential and the moderation request,
\* then the frame directory
SafetyEnter(r) ==
    /\ At(r, "safety_call")
    /\ \E ok \in BOOLEAN :
         IF "OPENAI_API_KEY" \notin keys \/ ~ok
           THEN /\ procs' = Goto(r, "raised")
                /\ UNCHANGED <<fs, made>>
           ELSE /\ procs' = Goto(r, "safety_block")
                /\ fs' = fs \cup {SafetyFrames(r)}
                /\ made' = [made EXCEPT ![r] = @ \cup {SafetyFrames(r)}]
    /\ UNCHANGED <<access, restVars>>

BlockOutcomes == {"frames_error", "request_error", "unparsable", "ok"}

\* safety_rate.py lines 116-264: the block is left on an error of the frame
\* extraction, of the request or of json.loads, or at its end; the report
\* is written after it
SafetyBlock(r) ==
    /\ At(r, "safety_block")
    /\ \E outcome \in BlockOutcomes :
         /\ fs' = Cleanup(fs, SafetyFrames(r), outcome # "ok")
                    \cup (IF outcome = "ok" THEN {SafetyPath(r)} ELSE {})
         /\ access' = access \cup (IF outcome = "ok" THEN Log(r, {FinalPath(r)}, "read")
                                                        \cup Log(r, {SafetyPath(r)}, "write")
                                   ELSE IF outcome # "frames_error"
                                     THEN Log(r, {FinalPath(r)}, "read") ELSE {})
         /\ procs' = [procs EXCEPT ![r].pc = IF outcome = "ok" THEN "rate_call" ELSE "raised",
                                   ![r].pending = outcome]
    /\ UNCHANGED <<made, restVars>>

\* rate.py lines 89-96: the credential, then the frame directory
RateEnter(r) ==
    /\ At(r, "rate_call")
    /\ IF "OPENAI_API_KEY" \notin keys
         THEN /\ procs' = Goto(r, "raised")
              /\ UNCHANGED <<fs, made>>
         ELSE /\ procs' = Goto(r, "rate_block")
              /\ fs' = fs \cup {RateFrames(r)}
              /\ made' = [made EXCEPT ![r] = @ \cup {RateFrames(r)}]
    /\ UNCHANGED <<access, restVars>>

\* rate.py lines 96-207
RateBlock(r) ==
    /\ At(r, "rate_block")
    /\ \E outcome \in BlockOutcomes :
         /\ fs' = Cleanup(fs, RateFrames(r), outcome # "ok")
                    \cup (IF outcome = "ok" THEN {RatingPath(r)} ELSE {})
         /\ access' = access \cup (IF outcome = "ok" THEN Log(r, {FinalPath(r)}, "read")
                                                        \cup Log(r, {RatingPath(r)}, "write")
                                   ELSE IF outcome # "frames_error"
                                     THEN Log(r, {FinalPath(r)}, "read") ELSE {})
         /\ procs' = [procs EXCEPT ![r].pc = IF outcome = "ok" THEN "done" ELSE "raised",
                                   ![r].pending = outcome]
    /\ UNCHANGED <<made, restVars>>

InitRuns ==
    /\ pc = "runs"
    /\ mode = "runs"
    /\ trace = <<>>
    /\ IdleRun
    /\ IdleIterate
    /\ IdleSafety
    /\ IdleMedia
    /\ IdlePolish
    /\ error = <<>>
    /\ clips_loaded = 0
    /\ written = <<>>
    /\ replies = Reports
    /\ calls = <<>>
    /\ IdleFrames
    /\ IdleClips
    /\ made = [r \in Runs |-> {}]
    /\ access = {}

\* one run; the scratch directory of a killed earlier run may be left
InitScratch ==
    /\ InitRuns
    /\ keys \in {AllKeys, AllKeys \ {"OPENAI_API_KEY"}}
    /\ fs \in {{}, {TtsTemp, SegPath(0)}}
    /\ \E n \in 0..MaxTtsSegments, voice \in BOOLEAN :
         procs = [r \in Runs |->
                    [pc |-> IF r = 1 THEN "polish_call" ELSE "off", voiceover |-> voice,
                     n |-> n, k |-> 0, pending |-> "none"]]

\* two runs at once
InitConcurrent ==
    /\ InitRuns
    /\ keys = AllKeys
    /\ fs = {}
    /\ procs \in [Runs -> [pc : {"polish_call"}, voiceover : BOOLEAN,
                           n : 0..MaxTtsSegments, k : {0}, pending : {"none"}]]

NextRuns ==
    \/ \E r \in Runs : PolishEnter(r)
    \/ \E r \in Runs : TtsEnter(r)
    \/ \E r \in Runs : TtsSegment(r)
    \/ \E r \in Runs : TtsConcat(r)
    \/ \E r \in Runs : TtsUnlink(r)
    \/ \E r \in Runs : TtsRmdir(r)
    \/ \E r \in Runs : PolishFinal(r)
    \/ \E r \in Runs : SafetyEnter(r)
    \/ \E r \in Runs : SafetyBlock(r)
    \/ \E r \in Runs : RateEnter(r)
    \/ \E r \in Runs : RateBlock(r)

SpecScratch == InitScratch /\ [][NextRuns]_vars

SpecConcurrent == InitConcurrent /\ [][NextRuns]_vars

\* the positions of a run inside the call that created the directory
InsideCall(dir) ==
    CASE dir.name = "_tts_temp" -> {"tts_loop", "tts_unlink", "tts_rmdir"}
      [] dir.name = "safety_frames" -> {"safety_block"}
      [] dir.name = "rate_frames" -> {"rate_block"}

\* C21: every scratch directory created by a call (the _tts_temp directory
\* of generate_tts_audio, the frame directory of rate_video and of
\* safety_check) no longer exists when that call returns or raises, whichever
\* step inside the call failed.
C21_ScratchRemoved ==
    \A r \in Runs : \A dir \in made[r] :
        dir \in fs => procs[r].pc \in InsideCall(dir)

\* C21 witness: a run whose three calls each made their directory, the last
\* one raising inside its block, with no directory left
C21_Witness ==
    /\ procs[1].pc = "raised"
    /\ made[1] = {TtsTemp, SafetyFrames(1), RateFrames(1)}
    /\ made[1] \cap fs = {}
    /\ FinalPath(1) \in fs

\* C27: two pipeline runs executing concurrently on scripts with different
\* base names are independent: in no interleaving does one run write, read
\* back or delete a file path that the other run writes, also with voiceover
\* enabled in both.
C27_RunsShareNoPath ==
    \A a \in access : \A b \in access :
        (a.run # b.run /\ a.kind = "write") => a.path # b.path

(***************************************************************************)
(* iterate on a draft, with and without voiceover, at the level of the     *)
(* files its rounds write.                                                 *)
(***************************************************************************)
InitLoop ==
    /\ pc = "iterate"
    /\ mode = "iterate"
    /\ trace = <<>>
    /\ IdleRun
    /\ IdleSafety
    /\ script = <<>>
    /\ segments \in {<<>>, <<RunSegment>>}
    /\ clip_durations = <<>>
    /\ single_clip = FALSE
    /\ target_duration = <<>>
    /\ draft = <<>>
    /\ ov_k = 1
    /\ t = 0
    /\ text_clips = <<>>
    /\ video_duration = 0
    /\ music = <<>>
    /\ music_audio = <<>>
    /\ voiceover \in BOOLEAN
    /\ audio_clips = <<>>
    /\ final_audio = <<>>
    /\ final = <<>>
    /\ error = <<>>
    /\ clips_loaded = 0
    /\ written = <<>>
    /\ keys = AllKeys
    /\ replies = WellFormedReplies
    /\ IdleAux
    /\ calls = <<>>
    /\ draft_exists \in BOOLEAN
    /\ max_iterations \in 0..MaxIterations
    /\ min_score = DefaultMinScore
    /\ i = 0
    /\ rating = <<>>
    /\ reports = <<>>
    /\ ret = <<>>

SpecLoop == InitLoop /\ [][NextIterate]_vars

\* the writes of one file, in order
WritesOf(file) == SelectSeq(written, LAMBDA w : w.file = file)

\* the files written more than once
Overwritten == {written[k].file : k \in {m \in 1..Len(written) : \E j \in 1..(m - 1) :
                                              written[j].file = written[m].file}}

\* the draft is never written; the files written more than once are among
\* `allowed`; at the exit of the loop the final video and the rating report
\* are those of the last executed round
LoopFiles(allowed) ==
    /\ \A k \in 1..Len(written) : written[k].file # "draft"
    /\ Overwritten \subseteq allowed
    /\ (pc = "iter_returned" /\ reports # <<>>) =>
          /\ final = <<Len(reports)>>
          /\ WritesOf("final")[Len(WritesOf("final"))].pass = Len(reports)
          /\ WritesOf("rating")[Len(WritesOf("rating"))].content = <<reports[Len(reports)]>>
          /\ ret = <<reports[Len(reports)]>>

\* every step leaves the draft and the parameters of polish as they were
LoopFrame ==
    /\ draft_exists' = draft_exists
    /\ draft' = draft
    /\ segments' = segments
    /\ polishArgs' = polishArgs

\* C28 as stated: the iteration loop never modifies the draft: every
\* iteration applies polish to the same draft with the same parameters,
\* independent of the reports of earlier iterations, and the only files it
\* overwrites are the final artifact and the rating report, which at loop
\* exit hold the output and report of the last executed round.
C28_OnlyFinalAndRatingOverwritten ==
    [](LoopFiles({"final", "rating"})) /\ [][LoopFrame]_vars

\* C28, amended: as above, the files overwritten being the final artifact,
\* the rating report and, with voiceover, output/_tts_voiceover.mp3, which
\* every round writes again.
C28_DraftKeptOutputsOverwritten ==
    [](LoopFiles({"final", "rating", "_tts_voiceover"})) /\ [][LoopFrame]_vars

\* C28 witness: two rounds with voiceover, the second meeting the target
C28_Witness ==
    /\ pc = "iter_returned"
    /\ voiceover
    /\ Len(reports) = 2
    /\ Len(WritesOf("_tts_voiceover")) = 2
    /\ Len(WritesOf("final")) = 2
    /\ final = <<2>>

====
